---- MODULE Spec2Model ----
(***************************************************************************)
(* The streaming deliberation pipeline of backend/main.py                  *)
(* (send_message_stream_tokens.event_stream) with the stage collectors of  *)
(* backend/council/stage1.py, stage2.py and stage3.py that it runs as      *)
(* asyncio tasks.                                                          *)
(*                                                                         *)
(* One request is modelled.  The driver is the async generator             *)
(* event_stream: each of its awaits is one action, and the events it       *)
(* yields up to the next await are appended to the client's view in that   *)
(* action.  A stage task and its member coroutines advance one backend     *)
(* chunk at a time, so that every interleaving of the members with the     *)
(* driver's poll/drain loop is explored.                                   *)
(*                                                                         *)
(* The call at main.py:445-454 passes search_context to the stage-1        *)
(* collector; the collector is modelled with the behaviour of              *)
(* stage1.py:11-119, the keyword being taken as accepted and unused.       *)
(***************************************************************************)
EXTENDS Integers, Sequences, FiniteSets, TLC

\* ----------------------------------------------------------------- bounds
\* largest number of token/thinking chunks that the backend streams of one
\* stage yield, all streams together, before their terminal chunks
MaxChunks == 2

\* the panel of the request: the members stage 1 and stage 2 fan out to
Members == {1, 2}
\* stream 0 is the chairman's stream of stage 3
Streams == {0} \cup Members

Modes == {"chat", "ranked", "full"}
MsgTypes == {"factual", "chat", "deliberation", "followup"}
\* main.py:356
DirectTypes == {"factual", "chat", "followup", "direct"}

VARIABLES
    mode,           \* request.execution_mode
    forceDirect,    \* request.force_direct
    panelOverride,  \* request.panel_override is not None
    pc,             \* the driver's position in event_stream
    stage,          \* the stage whose task was created last (0: none yet)
    task,           \* that task: "none", "created", "running", "done"
    queue,          \* event_queue: events enqueued and not yet delivered
    enq,            \* history: every event enqueued since the stage started
    seg,            \* history: every event delivered since the stage started
    hist,           \* history: the milestone events delivered, whole request
    mst,            \* per stream: "idle", "run", "ok", "okempty", "fail"
    mn,             \* per stream: token/thinking chunks received so far
    mbuf,           \* per stream: the content buffer is non-empty
    s1res,          \* stage1_results: the surviving members, in order
    s2res,          \* stage2_results: the evaluators that returned a result
    s3res,          \* stage3_result["response"]
    final,          \* the response of the driver's own stage3_complete event
    saved,          \* the assistant records appended (their stage3 response)
    lbWrites,       \* record_deliberation_result calls made
    msgType,        \* msg_type: the class the driver branches on ("none": not yet)
    l2m,            \* label_to_member of stage 2: label -> stage-1 member
    rank,           \* per evaluator: the parsed_ranking of its stage-2 result
    top,            \* analysis["top_response"]["label"] (0: no label scored)
    router,         \* an invocation of stage0_route_question (routing.py)
    classifier,     \* an invocation of classify_message (routing.py)
    s1err,          \* history: the stage-1 members whose stream ended in error
    scoring,        \* an aggregation of stage-2 rankings (analysis.py)
    leaderboard,    \* the leaderboard file and the calls recording into it
    stream,         \* a call of the backend streaming operation
    usage           \* a UsageAggregator (council/utils.py)

vars == <<mode, forceDirect, panelOverride, pc, stage, task, queue, enq, seg,
          hist, mst, mn, mbuf, s1res, s2res, s3res, final, saved, lbWrites,
          msgType, l2m, rank, top, router, classifier, s1err,
          scoring, leaderboard, stream, usage>>

\* ------------------------------------------------------------------ events
\* An event as the client sees it: its type tag, the member it is about (0:
\* none), the index of the chunk it carries (0: none), and whether it went
\* through queue_event or was yielded by the driver itself.
Ev(t, m, n, via) == [type |-> t, m |-> m, n |-> n, via |-> via]
Y(t) == Ev(t, 0, 0, "yield")
Q(t, m, n) == Ev(t, m, n, "queue")

\* The events whose order across the whole request is kept in hist.
Milestones == {"classification_start", "classification_complete", "direct_start",
               "routing_complete", "stage1_start", "stage1_init",
               "stage1_complete", "stage2_start", "stage2_init",
               "stage2_complete", "stage3_start", "stage3_complete",
               "done", "error"}

TypesOf(evs) == [i \in 1..Len(evs) |-> evs[i].type]
IsMilestone(t) == t \in Milestones
MilestonesOf(evs) == SelectSeq(TypesOf(evs), IsMilestone)

\* a response text, by where it came from
Resp(k, m) == [kind |-> k, m |-> m]
NoResp == Resp("none", 0)

\* the driver yields evs to the client
Emit(evs) ==
    /\ seg' = seg \o evs
    /\ hist' = hist \o MilestonesOf(evs)

\* the driver opens a stage: its first event starts a new segment
EmitStart(t) ==
    /\ seg' = <<Y(t)>>
    /\ hist' = hist \o MilestonesOf(<<Y(t)>>)

Opt(b, evs) == IF b THEN evs ELSE <<>>

RECURSIVE SumOver(_, _)
SumOver(f, S) ==
    IF S = {} THEN 0
    ELSE LET x == CHOOSE y \in S : TRUE IN f[x] + SumOver(f, S \ {x})
\* the stage's streams may still yield a token/thinking chunk
MoreChunks == SumOver(mn, Streams) < MaxChunks

\* the request as event_stream finds it, main.py:308-326
PipelineStart ==
    /\ mode \in Modes
    /\ forceDirect \in BOOLEAN
    /\ panelOverride \in BOOLEAN
    /\ pc = "start"
    /\ stage = 0
    /\ task = "none"
    /\ queue = <<>>
    /\ enq = <<>>
    /\ seg = <<>>
    /\ hist = <<>>
    /\ mst = [i \in Streams |-> "idle"]
    /\ mn = [i \in Streams |-> 0]
    /\ mbuf = [i \in Streams |-> FALSE]
    /\ s1res = <<>>
    /\ s2res = <<>>
    /\ s3res = NoResp
    /\ final = NoResp
    /\ saved = <<>>
    /\ lbWrites = 0
    /\ msgType = "none"
    /\ l2m = <<>>
    /\ rank = [i \in Members |-> <<>>]
    /\ top = 0
    /\ s1err = {}

\* routing.py is at rest while the pipeline is followed
NoRouter == [pc |-> "off"]
NoClassifier == [pc |-> "off"]
\* and so are the components that are followed on their own
NoScoring == [pc |-> "off"]
NoLeaderboard == [pc |-> "off"]
NoStream == [pc |-> "off"]
NoUsage == [pc |-> "off"]
PartsAtRest ==
    /\ scoring = NoScoring
    /\ leaderboard = NoLeaderboard
    /\ stream = NoStream
    /\ usage = NoUsage

Init ==
    /\ PipelineStart
    /\ router = NoRouter
    /\ classifier = NoClassifier
    /\ PartsAtRest

partVars == <<scoring, leaderboard, stream, usage>>
stage0Vars == <<router, classifier>>
pipelineVars == <<mode, forceDirect, panelOverride, pc, stage, task, queue, enq, seg,
                  hist, mst, mn, mbuf, s1res, s2res, s3res, final, saved, lbWrites,
                  msgType, l2m, rank, top, s1err>>
taskVars == <<stage, task, queue, enq, mst, mn, mbuf, s1res, s2res, s3res, lbWrites,
              l2m, rank, top>>
inputVars == <<mode, forceDirect, panelOverride>>

\* ------------------------------------------------- driver, before stage 1
\* mutant of Begin: force_direct is ignored and the classifier always runs
Begin_AlwaysClassify ==
    /\ pc = "start"
    /\ Emit(<<Y("execution_mode"), Y("classification_start")>>)
    /\ pc' = "classify"
    /\ UNCHANGED <<inputVars, stage0Vars, partVars, s1err, msgType, taskVars, final, saved>>

\* main.py:329-343: with force_direct the classifier is skipped and msg_type
\* is "direct"
Begin ==
    /\ pc = "start"
    /\ IF forceDirect
       THEN /\ Emit(<<Y("execution_mode"), Y("classification_complete"),
                      Y("direct_start")>>)
            /\ msgType' = "direct"
            /\ pc' = "direct"
       ELSE /\ Emit(<<Y("execution_mode"), Y("classification_start")>>)
            /\ UNCHANGED msgType
            /\ pc' = "classify"
    /\ UNCHANGED <<inputVars, stage0Vars, partVars, s1err, taskVars, final, saved>>

\* main.py:345-399: classify_message returns type t, with usage iff u
ClassifyReturns ==
    /\ pc = "classify"
    /\ \E t \in MsgTypes, u \in BOOLEAN :
         LET head == Opt(u, <<Y("usage_update")>>) \o <<Y("classification_complete")>>
         IN  /\ msgType' = t
             /\ IF t \in DirectTypes
                THEN /\ Emit(head \o <<Y("direct_start")>>)
                     /\ pc' = "direct"
                ELSE IF panelOverride
                THEN /\ Emit(head \o <<Y("panel_confirmed")>>)
                     /\ pc' = "panel"
                ELSE /\ Emit(head \o <<Y("routing_start")>>)
                     /\ pc' = "route"
    /\ UNCHANGED <<inputVars, stage0Vars, partVars, s1err, taskVars, final, saved>>

\* main.py:392-406: stage0_route_question returns, with usage iff u
RouteReturns ==
    /\ pc = "route"
    /\ \E u \in BOOLEAN :
         Emit(Opt(u, <<Y("usage_update")>>)
              \o <<Y("routing_complete"), Y("panel_confirmed")>>)
    /\ pc' = "panel"
    /\ UNCHANGED <<inputVars, stage0Vars, partVars, s1err, msgType, taskVars, final, saved>>

\* main.py:410-411: detect_search_intent(content) holds
SearchStart ==
    /\ pc = "panel"
    /\ Emit(<<Y("search_start")>>)
    /\ pc' = "search"
    /\ UNCHANGED <<inputVars, stage0Vars, partVars, s1err, msgType, taskVars, final, saved>>

\* main.py:412-421: search returns or raises; search_complete either way
SearchReturns ==
    /\ pc = "search"
    /\ Emit(<<Y("search_complete")>>)
    /\ pc' = "searched"
    /\ UNCHANGED <<inputVars, stage0Vars, partVars, s1err, msgType, taskVars, final, saved>>

\* ------------------------------------------------------- the event queue
\* asyncio.Queue().put_nowait, main.py:326,331-333: appends, never waits
Put(q, evs) == q \o evs
\* mutant of QueueHead: the newest event is handed out (a LIFO queue)
QueueHead_Newest(q) == q[Len(q)]
\* asyncio.Queue.get / get_nowait, main.py:301,459: the oldest event
QueueHead(q) == Head(q)
QueueRest(q) == Tail(q)

Enqueue(evs) ==
    /\ queue' = Put(queue, evs)
    /\ enq' = IF pc = "cancelled" THEN <<>> ELSE enq \o evs

\* main.py:428-442: what stage1_on_event puts on the queue for an event
Stage1OnEvent(t, m, n) ==
    CASE t = "stage1_init" -> <<Q("stage1_init", 0, 0)>>
      [] t = "stage1_model_complete" ->
            <<Q("stage1_progress", m, 0), Q("stage1_model_complete", m, 0)>>
      [] t \in {"stage1_token", "stage1_thinking"} -> <<Q(t, m, n)>>
      [] OTHER -> <<>>

\* main.py:512-526
Stage2OnEvent(t, m, n) ==
    CASE t = "stage2_init" -> <<Q("stage2_init", 0, 0)>>
      [] t = "stage2_model_complete" ->
            <<Q("stage2_progress", m, 0), Q("stage2_model_complete", m, 0)>>
      [] t \in {"stage2_token", "stage2_thinking", "round_start", "round_complete"} ->
            <<Q(t, m, n)>>
      [] OTHER -> <<>>

\* main.py:616-617
Stage3OnEvent(t, m, n) == <<Q(t, m, n)>>

\* ------------------------------------------------- labels and rankings
\* stage2.py:35: labels = [chr(65 + i) for i in range(len(stage1_results))];
\* a label is modelled by its character code, Labels[k] for the k-th result
Labels(results) == [k \in 1..Len(results) |-> 65 + (k - 1)]
LabelSet(results) == {Labels(results)[k] : k \in 1..Len(results)}

\* mutant of LabelToMember: every label is given the first result
LabelToMember_FirstForAll(results) == [c \in LabelSet(results) |-> results[1]]

\* stage2.py:42-49: label_to_member, built by zip(labels, stage1_results)
LabelToMember(results) ==
    [c \in LabelSet(results) |->
        results[CHOOSE k \in 1..Len(results) : Labels(results)[k] = c]]

\* ranking.py:7-19: what parse_ranking_from_text can return for a
\* deliberation with the labels L: labels in order, none repeated
Rankings(L) ==
    {r \in UNION {[1..n -> L] : n \in 0..Cardinality(L)} :
        \A a, b \in 1..Len(r) : a # b => r[a] # r[b]}

\* the position of label c in the ranking r (0: not ranked)
PosIn(r, c) == IF \E a \in 1..Len(r) : r[a] = c
               THEN CHOOSE a \in 1..Len(r) : r[a] = c ELSE 0

\* analysis.py:233-252: the Borda score of label c over the rankings rks:
\* the entry at 0-based index i of a ranking of n labels adds n - i
RECURSIVE CalculateWeightedRankings(_, _)
CalculateWeightedRankings(rks, c) ==
    IF rks = <<>> THEN 0
    ELSE (IF PosIn(Head(rks), c) = 0 THEN 0
          ELSE Len(Head(rks)) - (PosIn(Head(rks), c) - 1))
         + CalculateWeightedRankings(Tail(rks), c)

\* the keys of the scores dict in insertion order: the labels in the order
\* in which the loop of analysis.py:235-242 first meets them
RECURSIVE Concat(_)
Concat(rks) == IF rks = <<>> THEN <<>> ELSE Head(rks) \o Concat(Tail(rks))
RECURSIVE Dedup(_)
Dedup(s) ==
    IF s = <<>> THEN <<>>
    ELSE LET d == Dedup(SubSeq(s, 1, Len(s) - 1))
         IN  IF \E a \in 1..Len(d) : d[a] = s[Len(s)] THEN d ELSE Append(d, s[Len(s)])
ScoreKeys(rks) == Dedup(Concat(rks))

\* analysis.py:265-269: max(weighted_scores, key=weighted_scores.get), the
\* first key in insertion order that has the highest score (0: no scores)
GetTopResponse(rks) ==
    LET keys == ScoreKeys(rks)
        best(a) == \A b \in 1..Len(keys) :
                     CalculateWeightedRankings(rks, keys[b])
                       <= CalculateWeightedRankings(rks, keys[a])
    IN  IF keys = <<>> THEN 0
        ELSE keys[CHOOSE a \in 1..Len(keys) :
                    best(a) /\ \A b \in 1..(a - 1) : ~best(b)]

\* ----------------------------------------------------------- stage tasks
\* The task created by asyncio.create_task runs up to its first await:
\* stage1.py:24-31,112-113; stage2.py:33-63,158-159; stage3.py:95-102.
TaskBegin ==
    /\ task = "created"
    /\ task' = "running"
    /\ CASE stage = 1 ->
              /\ Enqueue(Stage1OnEvent("stage1_init", 0, 0))
              /\ mst' = [i \in Streams |-> IF i \in Members THEN "run" ELSE "idle"]
              /\ UNCHANGED l2m
         [] stage = 2 ->
              /\ l2m' = LabelToMember(s1res)
              /\ Enqueue(Stage2OnEvent("stage2_init", 0, 0)
                         \o Stage2OnEvent("round_start", 0, 0))
              /\ mst' = [i \in Streams |-> IF i \in Members THEN "run" ELSE "idle"]
         [] OTHER ->
              /\ UNCHANGED <<queue, enq, l2m>>
              /\ mst' = [i \in Streams |-> IF i = 0 THEN "run" ELSE "idle"]
    /\ mn' = [i \in Streams |-> 0]
    /\ mbuf' = [i \in Streams |-> FALSE]
    /\ UNCHANGED <<inputVars, stage0Vars, partVars, s1err, msgType, rank, top, pc, stage, seg, hist, s1res, s2res, s3res, final, saved, lbWrites>>

\* stage1.py:56-110: member i of stage 1 takes the next chunk of its stream;
\* "end" is the stream ending without a terminal chunk
Stage1Chunk(i) ==
    /\ stage = 1 /\ task = "running" /\ mst[i] = "run"
    /\ \E k \in {"token", "thinking", "complete", "error", "end"} :
         CASE k = "token" ->
                /\ MoreChunks
                /\ mn' = [mn EXCEPT ![i] = @ + 1]
                /\ mbuf' = [mbuf EXCEPT ![i] = TRUE]
                /\ Enqueue(Stage1OnEvent("stage1_token", i, mn[i] + 1))
                /\ UNCHANGED <<mst, s1err>>
           [] k = "thinking" ->
                /\ MoreChunks
                /\ mn' = [mn EXCEPT ![i] = @ + 1]
                /\ Enqueue(Stage1OnEvent("stage1_thinking", i, mn[i] + 1))
                /\ UNCHANGED <<mst, mbuf, s1err>>
           [] k = "complete" ->
                /\ mst' = [mst EXCEPT ![i] = "ok"]
                /\ Enqueue(Stage1OnEvent("stage1_model_complete", i, 0))
                /\ UNCHANGED <<mn, mbuf, s1err>>
           [] k = "error" ->
                /\ mst' = [mst EXCEPT ![i] = "fail"]
                /\ Enqueue(Stage1OnEvent("stage1_model_error", i, 0))
                /\ s1err' = IF pc = "cancelled" THEN s1err ELSE s1err \cup {i}
                /\ UNCHANGED <<mn, mbuf>>
           [] OTHER ->
                /\ mst' = [mst EXCEPT ![i] = IF mbuf[i] THEN "ok" ELSE "fail"]
                /\ UNCHANGED <<mn, mbuf, queue, enq, s1err>>
    /\ UNCHANGED <<inputVars, stage0Vars, partVars, msgType, l2m, rank, top, pc, stage, task, seg, hist, s1res, s2res, s3res, final, saved, lbWrites>>

\* stage2.py:122,146: the evaluator's result r with its parsed_ranking: a
\* ranking of labels of the deliberation when r is "ok", none when "okempty"
Parsed(i, r) ==
    IF r = "ok"
    THEN \E p \in Rankings(DOMAIN l2m) \ {<<>>} : rank' = [rank EXCEPT ![i] = p]
    ELSE rank' = [rank EXCEPT ![i] = <<>>]

\* stage2.py:101-156: evaluator i takes the next chunk; a result whose text
\* parses to no label of the deliberation is "okempty"
Stage2Chunk(i) ==
    /\ stage = 2 /\ task = "running" /\ mst[i] = "run"
    /\ \E k \in {"token", "thinking", "complete", "error", "end"} :
         CASE k = "token" ->
                /\ MoreChunks
                /\ mn' = [mn EXCEPT ![i] = @ + 1]
                /\ mbuf' = [mbuf EXCEPT ![i] = TRUE]
                /\ Enqueue(Stage2OnEvent("stage2_token", i, mn[i] + 1))
                /\ UNCHANGED <<mst, rank>>
           [] k = "thinking" ->
                /\ MoreChunks
                /\ mn' = [mn EXCEPT ![i] = @ + 1]
                /\ Enqueue(Stage2OnEvent("stage2_thinking", i, mn[i] + 1))
                /\ UNCHANGED <<mst, mbuf, rank>>
           [] k = "complete" ->
                /\ \E r \in {"ok", "okempty"} :
                     /\ mst' = [mst EXCEPT ![i] = r]
                     /\ Parsed(i, r)
                /\ Enqueue(Stage2OnEvent("stage2_model_complete", i, 0))
                /\ UNCHANGED <<mn, mbuf>>
           [] k = "error" ->
                /\ mst' = [mst EXCEPT ![i] = "fail"]
                /\ UNCHANGED <<mn, mbuf, queue, enq, rank>>
           [] OTHER ->
                /\ IF mbuf[i]
                   THEN \E r \in {"ok", "okempty"} :
                          /\ mst' = [mst EXCEPT ![i] = r]
                          /\ Parsed(i, r)
                   ELSE /\ mst' = [mst EXCEPT ![i] = "fail"]
                        /\ UNCHANGED rank
                /\ UNCHANGED <<mn, mbuf, queue, enq>>
    /\ UNCHANGED <<inputVars, stage0Vars, partVars, s1err, msgType, l2m, top, pc, stage, task, seg, hist, s1res, s2res, s3res, final, saved, lbWrites>>

Survived(st, i) == st[i] \in {"ok", "okempty"}
AllTerminal(st) == \A i \in Members : st[i] \in {"ok", "okempty", "fail"}

\* asyncio.gather(..., return_exceptions=True) and the filter after it,
\* stage1.py:112-119 (stage2.py:158-163): the members that returned a
\* result, in the order of the member list
RECURSIVE GatherFrom(_, _)
GatherFrom(st, i) ==
    IF i > Cardinality(Members) THEN <<>>
    ELSE (IF Survived(st, i) THEN <<i>> ELSE <<>>) \o GatherFrom(st, i + 1)
\* mutant of GatherResults: gather without return_exceptions, the results
\* collected up to the first member that failed
RECURSIVE GatherUntilFailure(_, _)
GatherUntilFailure(st, i) ==
    IF i > Cardinality(Members) \/ ~Survived(st, i) THEN <<>>
    ELSE <<i>> \o GatherUntilFailure(st, i + 1)
GatherResults_AbortOnError(st) == GatherUntilFailure(st, 1)
GatherResults(st) == GatherFrom(st, 1)

\* stage1.py:113-119: every member has returned; the task returns results
Stage1Finish ==
    /\ stage = 1 /\ task = "running" /\ AllTerminal(mst)
    /\ s1res' = GatherResults(mst)
    /\ task' = "done"
    /\ mn' = [i \in Streams |-> 0]
    /\ mbuf' = [i \in Streams |-> FALSE]
    /\ UNCHANGED <<inputVars, stage0Vars, partVars, s1err, msgType, l2m, rank, top, pc, stage, queue, enq, seg, hist, mst,
                   s2res, s3res, final, saved, lbWrites>>

\* final_rankings of stage2.py:171: the parsed rankings of the evaluators
\* res, in the order of the result list
FinalRankings(res, rk) == [k \in 1..Len(res) |-> rk[res[k]]]

\* stage2.py:159-204: every evaluator has returned; round_complete, the
\* analysis with its top response, and the leaderboard record when a label
\* was scored.  The rankings live on in the analysis only.
Stage2Finish ==
    /\ stage = 2 /\ task = "running" /\ AllTerminal(mst)
    /\ s2res' = GatherResults(mst)
    /\ top' = GetTopResponse(FinalRankings(GatherResults(mst), rank))
    /\ rank' = [i \in Members |-> <<>>]
    /\ Enqueue(Stage2OnEvent("round_complete", 0, 0))
    /\ lbWrites' = IF \E i \in Members : mst[i] = "ok" THEN lbWrites + 1 ELSE lbWrites
    /\ task' = "done"
    /\ mn' = [i \in Streams |-> 0]
    /\ mbuf' = [i \in Streams |-> FALSE]
    /\ UNCHANGED <<inputVars, stage0Vars, partVars, s1err, msgType, l2m, pc, stage, seg, hist, mst, s1res, s3res,
                   final, saved>>

\* mutant of Stage3Failure: the buffered content is dropped
Stage3Failure_AlwaysFallback(buffered) == Resp("fallback", 0)

\* stage3.py:133,135: what the synthesizer returns when its stream fails
Stage3Failure(buffered) ==
    IF buffered THEN Resp("buffered", 0) ELSE Resp("fallback", 0)

\* stage3.py:102-135: the chairman's stream yields its next chunk
Stage3Chunk ==
    /\ stage = 3 /\ task = "running" /\ mst[0] = "run"
    /\ \E k \in {"token", "thinking", "complete", "error", "end"} :
         CASE k = "token" ->
                /\ MoreChunks
                /\ mn' = [mn EXCEPT ![0] = @ + 1]
                /\ mbuf' = [mbuf EXCEPT ![0] = TRUE]
                /\ Enqueue(Stage3OnEvent("stage3_token", 0, mn[0] + 1))
                /\ UNCHANGED <<mst, s3res, task>>
           [] k = "thinking" ->
                /\ MoreChunks
                /\ mn' = [mn EXCEPT ![0] = @ + 1]
                /\ Enqueue(Stage3OnEvent("stage3_thinking", 0, mn[0] + 1))
                /\ UNCHANGED <<mst, mbuf, s3res, task>>
           [] k = "complete" ->
                /\ mst' = [mst EXCEPT ![0] = "ok"]
                /\ Enqueue(Stage3OnEvent("stage3_complete", 0, 0))
                /\ s3res' = Resp("synthesis", 0)
                /\ task' = "done"
                /\ UNCHANGED <<mn, mbuf>>
           [] k = "error" ->
                /\ mst' = [mst EXCEPT ![0] = "fail"]
                /\ Enqueue(Stage3OnEvent("stage3_error", 0, 0))
                /\ s3res' = Stage3Failure(mbuf[0])
                /\ task' = "done"
                /\ UNCHANGED <<mn, mbuf>>
           [] OTHER ->
                /\ mst' = [mst EXCEPT ![0] = "fail"]
                /\ s3res' = Stage3Failure(mbuf[0])
                /\ task' = "done"
                /\ UNCHANGED <<mn, mbuf, queue, enq>>
    /\ UNCHANGED <<inputVars, stage0Vars, partVars, s1err, msgType, l2m, rank, top, pc, stage, seg, hist, s1res, s2res, final, saved, lbWrites>>

\* ------------------------------------------------- driver, stages 1 to 3
\* main.py:424-454: stage1_start, then the stage-1 task is created
StartStage1 ==
    /\ pc \in {"panel", "searched"}
    /\ EmitStart("stage1_start")
    /\ stage' = 1
    /\ task' = "created"
    /\ enq' = <<>>
    /\ pc' = "poll"
    /\ UNCHANGED <<inputVars, stage0Vars, partVars, s1err, msgType, l2m, rank, top, queue, mst, mn, mbuf, s1res, s2res, s3res, final, saved, lbWrites>>

\* main.py:457-462 (537-542, 629-634): the task is not done and
\* event_queue.get() returns an event within the timeout
DriverPoll ==
    /\ pc = "poll" /\ task # "done" /\ queue # <<>>
    /\ Emit(<<QueueHead(queue)>>)
    /\ queue' = QueueRest(queue)
    /\ UNCHANGED <<inputVars, stage0Vars, partVars, s1err, msgType, l2m, rank, top, pc, stage, task, enq, mst, mn, mbuf, s1res, s2res, s3res,
                   final, saved, lbWrites>>

\* mutant of DriverDrain: the queue is read only while the task is not done,
\* what is left in it afterwards is never yielded
DriverDrain_WhileRunning ==
    /\ pc = "poll" /\ task # "done" /\ queue # <<>>
    /\ Emit(<<QueueHead(queue)>>)
    /\ queue' = QueueRest(queue)
    /\ UNCHANGED <<inputVars, stage0Vars, partVars, s1err, msgType, l2m, rank, top, pc, stage, task, enq, mst, mn, mbuf, s1res, s2res, s3res,
                   final, saved, lbWrites>>

\* main.py:297-304,465-466: the task is done; _drain_queue yields the rest
DriverDrain ==
    /\ pc = "poll" /\ task = "done" /\ queue # <<>>
    /\ Emit(<<QueueHead(queue)>>)
    /\ queue' = QueueRest(queue)
    /\ UNCHANGED <<inputVars, stage0Vars, partVars, s1err, msgType, l2m, rank, top, pc, stage, task, enq, mst, mn, mbuf, s1res, s2res, s3res,
                   final, saved, lbWrites>>

\* mutant of Stage1Collected: stage1_complete is yielded as soon as the task
\* is done, the rest of the queue not drained first
Stage1Collected_NoDrain ==
    /\ pc = "poll" /\ stage = 1 /\ task = "done"
    /\ Emit(<<Y("stage1_complete"), Y("usage_update")>>)
    /\ pc' = "s1done"
    /\ s1err' = {}
    /\ UNCHANGED <<inputVars, stage0Vars, partVars, msgType, taskVars, final, saved>>

\* main.py:468-476
Stage1Collected ==
    /\ pc = "poll" /\ stage = 1 /\ task = "done" /\ queue = <<>>
    /\ Emit(<<Y("stage1_complete"), Y("usage_update")>>)
    /\ pc' = "s1done"
    /\ s1err' = {}
    /\ UNCHANGED <<inputVars, stage0Vars, partVars, msgType, taskVars, final, saved>>

\* mutant of Stage1NoSurvivors: the empty result list is not checked and the
\* driver goes on to stage 2
Stage1NoSurvivors_Unchecked ==
    /\ pc = "s1done" /\ s1res = <<>>
    /\ EmitStart("stage2_start")
    /\ stage' = 2
    /\ task' = "created"
    /\ enq' = <<>>
    /\ pc' = "poll"
    /\ UNCHANGED <<inputVars, stage0Vars, partVars, s1err, msgType, l2m, rank, top, queue, mst, mn, mbuf, s1res, s2res, s3res, final, saved, lbWrites>>

\* main.py:478-480
Stage1NoSurvivors ==
    /\ pc = "s1done" /\ s1res = <<>>
    /\ Emit(<<Y("error")>>)
    /\ pc' = "end"
    /\ UNCHANGED <<inputVars, stage0Vars, partVars, s1err, msgType, taskVars, final, saved>>

\* main.py:483-487: chat mode promotes the first stage-1 result
ChatFinal ==
    /\ pc = "s1done" /\ s1res # <<>> /\ mode = "chat"
    /\ Emit(<<Y("stage3_complete")>>)
    /\ final' = Resp("member", s1res[1])
    /\ pc' = "persist"
    /\ UNCHANGED <<inputVars, stage0Vars, partVars, s1err, msgType, taskVars, saved>>

\* mutant of StartStage2: the execution mode is not looked at and stage 2
\* may start in chat mode too
StartStage2_AnyMode ==
    /\ pc = "s1done" /\ s1res # <<>>
    /\ EmitStart("stage2_start")
    /\ stage' = 2
    /\ task' = "created"
    /\ enq' = <<>>
    /\ pc' = "poll"
    /\ UNCHANGED <<inputVars, stage0Vars, partVars, s1err, msgType, l2m, rank, top, queue, mst, mn, mbuf, s1res, s2res, s3res, final, saved, lbWrites>>

\* main.py:508-535
StartStage2 ==
    /\ pc = "s1done" /\ s1res # <<>> /\ mode # "chat"
    /\ EmitStart("stage2_start")
    /\ stage' = 2
    /\ task' = "created"
    /\ enq' = <<>>
    /\ pc' = "poll"
    /\ UNCHANGED <<inputVars, stage0Vars, partVars, s1err, msgType, l2m, rank, top, queue, mst, mn, mbuf, s1res, s2res, s3res, final, saved, lbWrites>>

\* mutant of Stage2Collected: done is yielded with stage2_complete, before
\* the mode decides whether stage 3 runs
Stage2Collected_DoneEarly ==
    /\ pc = "poll" /\ stage = 2 /\ task = "done" /\ queue = <<>>
    /\ Emit(<<Y("analysis"), Y("stage2_complete"), Y("usage_update"), Y("done")>>)
    /\ pc' = "s2done"
    /\ UNCHANGED <<inputVars, stage0Vars, partVars, s1err, msgType, taskVars, final, saved>>

\* main.py:547-566
Stage2Collected ==
    /\ pc = "poll" /\ stage = 2 /\ task = "done" /\ queue = <<>>
    /\ Emit(<<Y("analysis"), Y("stage2_complete"), Y("usage_update")>>)
    /\ pc' = "s2done"
    /\ UNCHANGED <<inputVars, stage0Vars, partVars, s1err, msgType, taskVars, final, saved>>

\* main.py:569-580: the analysis has no "aggregate_rankings" (stage2.py:195-202),
\* so agg is empty and the first stage-1 result is promoted
RankedFinal ==
    /\ pc = "s2done" /\ mode = "ranked"
    /\ Emit(<<Y("stage3_complete")>>)
    /\ final' = Resp("member", s1res[1])
    /\ pc' = "persist"
    /\ UNCHANGED <<inputVars, stage0Vars, partVars, s1err, msgType, taskVars, saved>>

\* main.py:614-627
StartStage3 ==
    /\ pc = "s2done" /\ mode = "full"
    /\ EmitStart("stage3_start")
    /\ stage' = 3
    /\ task' = "created"
    /\ enq' = <<>>
    /\ pc' = "poll"
    /\ UNCHANGED <<inputVars, stage0Vars, partVars, s1err, msgType, l2m, rank, top, queue, mst, mn, mbuf, s1res, s2res, s3res, final, saved, lbWrites>>

\* main.py:639-647
Stage3Collected ==
    /\ pc = "poll" /\ stage = 3 /\ task = "done" /\ queue = <<>>
    /\ Emit(<<Y("stage3_complete"), Y("usage_update")>>)
    /\ final' = s3res
    /\ pc' = "persist"
    /\ UNCHANGED <<inputVars, stage0Vars, partVars, s1err, msgType, taskVars, saved>>

\* main.py:359-369: chairman_direct_response returns, with usage iff u
DirectReturns ==
    /\ pc = "direct"
    /\ \E u \in BOOLEAN :
         Emit(Opt(u, <<Y("usage_update")>>) \o <<Y("stage3_complete")>>)
    /\ final' = Resp("direct", 0)
    /\ pc' = "persist"
    /\ UNCHANGED <<inputVars, stage0Vars, partVars, s1err, msgType, taskVars, saved>>

\* ---------------------------------------------------------- driver, end
\* mutant of AddAssistantMessage: the message is built and never appended
AddAssistantMessage_NotAppended(msgs, stage3) == msgs

\* storage.add_assistant_message, storage.py:146-172, called at
\* main.py:372,490,583,651: appends one record
AddAssistantMessage(msgs, stage3) == Append(msgs, stage3)

\* mutant of Persist: after the handler has yielded error the driver still
\* goes on to the title and to done
Persist_ErrorThenDone ==
    /\ pc = "persist"
    /\ \/ /\ saved' = AddAssistantMessage(saved, final)
          /\ pc' = "title"
          /\ UNCHANGED <<seg, hist>>
       \/ /\ Emit(<<Y("error")>>)
          /\ pc' = "title"
          /\ UNCHANGED saved
    /\ UNCHANGED <<inputVars, stage0Vars, partVars, s1err, msgType, taskVars, final>>

\* main.py:371-379 (489-498, 582-604, 650-674): the record is appended, or
\* the store raises and the handler of main.py:682-685 yields error.  The
\* leaderboard block that follows records nothing: agg is empty.
Persist ==
    /\ pc = "persist"
    /\ \/ /\ saved' = AddAssistantMessage(saved, final)
          /\ pc' = "title"
          /\ UNCHANGED <<seg, hist>>
       \/ /\ Emit(<<Y("error")>>)
          /\ pc' = "end"
          /\ UNCHANGED saved
    /\ UNCHANGED <<inputVars, stage0Vars, partVars, s1err, msgType, taskVars, final>>

\* mutant of TitleReturns: the new title is announced by an event of its own
TitleReturns_Announced ==
    /\ pc = "title"
    /\ Emit(<<Y("title_complete"), Y("done")>>)
    /\ pc' = "end"
    /\ UNCHANGED <<inputVars, stage0Vars, partVars, s1err, msgType, taskVars, final, saved>>

\* main.py:381-386 (500-505, 606-611, 676-680): _generate_title returns
TitleReturns ==
    /\ pc = "title"
    /\ Emit(<<Y("done")>>)
    /\ pc' = "end"
    /\ UNCHANGED <<inputVars, stage0Vars, partVars, s1err, msgType, taskVars, final, saved>>

\* main.py:687: the client disconnects and the server cancels the generator
\* at the await or yield it is suspended in; CancelledError is not an
\* Exception, so the handler of main.py:682 does not run.  The task made by
\* asyncio.create_task is not awaited by the driver and is not cancelled.
\* The client's view ends here: the histories are dropped.
ClientDisconnect ==
    /\ pc \notin {"start", "end", "cancelled"}
    /\ pc' = "cancelled"
    /\ seg' = <<>>
    /\ hist' = <<>>
    /\ enq' = <<>>
    /\ UNCHANGED <<inputVars, stage0Vars, partVars, s1err, msgType, l2m, rank, top, stage, task, queue, mst, mn, mbuf, s1res, s2res, s3res,
                   lbWrites, final, saved>>

Next ==
    \/ Begin
    \/ ClassifyReturns
    \/ RouteReturns
    \/ SearchStart
    \/ SearchReturns
    \/ StartStage1
    \/ TaskBegin
    \/ \E i \in Members : Stage1Chunk(i)
    \/ Stage1Finish
    \/ DriverPoll
    \/ DriverDrain
    \/ Stage1Collected
    \/ Stage1NoSurvivors
    \/ ChatFinal
    \/ StartStage2
    \/ \E i \in Members : Stage2Chunk(i)
    \/ Stage2Finish
    \/ Stage2Collected
    \/ RankedFinal
    \/ StartStage3
    \/ Stage3Chunk
    \/ Stage3Collected
    \/ DirectReturns
    \/ Persist
    \/ TitleReturns
    \/ ClientDisconnect

Spec == Init /\ [][Next]_vars

\* what analysis["top_response"] can name: a label of the deliberation, or
\* nothing (0)
TopResponses == {0} \cup {65 + (k - 1) : k \in 1..Cardinality(Members)}

\* stage2.py:159-204: the stage-2 task returns once every evaluator has.
\* This is Stage2Finish without the value of the analysis: a step of Next is
\* such a step exactly when it is a step of Stage2Finish, and the two are
\* enabled in the same states.
Stage2Returns ==
    /\ stage = 2 /\ task = "running" /\ AllTerminal(mst)
    /\ s2res' = GatherResults(mst)
    /\ \E t \in TopResponses : top' = t
    /\ rank' = [i \in Members |-> <<>>]
    /\ Enqueue(Stage2OnEvent("round_complete", 0, 0))
    /\ lbWrites' = IF \E i \in Members : mst[i] = "ok" THEN lbWrites + 1 ELSE lbWrites
    /\ task' = "done"
    /\ mn' = [i \in Streams |-> 0]
    /\ mbuf' = [i \in Streams |-> FALSE]
    /\ UNCHANGED <<inputVars, stage0Vars, partVars, s1err, msgType, l2m, pc, stage, seg, hist, mst, s1res, s3res,
                   final, saved>>

\* Every step of the request but the client's disconnect: the steps of the
\* driver, which the event loop resumes whenever it can go on, and the steps
\* of the stage tasks and blocking calls, which are assumed to terminate.
Progress ==
    \/ Begin
    \/ ClassifyReturns
    \/ RouteReturns
    \/ SearchStart
    \/ SearchReturns
    \/ StartStage1
    \/ TaskBegin
    \/ \E i \in Members : Stage1Chunk(i)
    \/ Stage1Finish
    \/ DriverPoll
    \/ DriverDrain
    \/ Stage1Collected
    \/ Stage1NoSurvivors
    \/ ChatFinal
    \/ StartStage2
    \/ \E i \in Members : Stage2Chunk(i)
    \/ Stage2Returns
    \/ Stage2Collected
    \/ RankedFinal
    \/ StartStage3
    \/ Stage3Chunk
    \/ Stage3Collected
    \/ DirectReturns
    \/ Persist
    \/ TitleReturns

\* the request when no backend call hangs and the event loop keeps running
LiveSpec == Init /\ [][Next]_vars /\ WF_vars(Progress)

\* ------------------------------------------------ the router, routing.py
\* largest council (number of personas), largest list of available backends,
\* and longest panel list in a routing reply
MaxAdvisors == 3
MaxModels == 2
MaxReply == 2

Min(a, b) == IF a <= b THEN a ELSE b

\* A valid council: its advisors in council order, the available backends
\* (config models) in order, and a routing config with
\* 1 <= min <= default <= max <= |personas|.
Councils ==
    {[advisors |-> [i \in 1..n |-> i], models |-> [j \in 1..k |-> j],
      min |-> lo, default |-> df, max |-> hi] :
        n \in 1..MaxAdvisors, k \in 1..MaxModels,
        lo \in 1..MaxAdvisors, df \in 1..MaxAdvisors, hi \in 1..MaxAdvisors}
RoutingConfigValid(c) ==
    /\ 1 <= c.min /\ c.min <= c.default
    /\ c.default <= c.max /\ c.max <= Len(c.advisors)
ValidCouncils == {c \in Councils : RoutingConfigValid(c)}

\* an entry of the reply's panel list: advisor_id 0 is an id that is not in
\* the council, model 0 a backend id that is not available
Entries(c) == [advisor_id : 0..Len(c.advisors), model : 0..Len(c.models)]
\* What the routing backend call can come to: it raises, returns no
\* response, returns empty content, content that holds no JSON, a JSON
\* object without "panel", or a JSON object with a panel list.
RouterReplies(c) ==
    {[kind |-> k, entries |-> <<>>] :
        k \in {"raise", "none", "empty", "text", "nopanel"}}
    \cup {[kind |-> "panel", entries |-> e] :
            e \in UNION {[1..n -> Entries(c)] : n \in 0..MaxReply}}

SeqRange(q) == {q[i] : i \in 1..Len(q)}

\* mutant of FallbackPanel: every advisor is given the first backend
FallbackPanel_FirstBackend(advisors, models, count) ==
    [i \in 1..Min(count, Len(advisors)) |->
        [advisor_id |-> advisors[i], model |-> models[1],
         reasoning |-> "fallback selection"]]

\* routing.py:207-220, _fallback_panel: the first count advisors, the one at
\* 0-based index i given models[i % len(models)]
FallbackPanel(advisors, models, count) ==
    [i \in 1..Min(count, Len(advisors)) |->
        [advisor_id |-> advisors[i],
         model |-> models[((i - 1) % Len(models)) + 1],
         reasoning |-> "fallback selection"]]

\* mutant of AssignModel: the backend id of the reply is kept as it is
AssignModel_AsReplied(model, models, kept) == model

\* routing.py:188-189: a backend id that is not available is replaced by
\* all_models[len(validated) % len(all_models)]
AssignModel(model, models, kept) ==
    IF model \in SeqRange(models) THEN model
    ELSE models[(Len(kept) % Len(models)) + 1]

\* routing.py:181-194: the loop over the reply's panel; entries whose
\* advisor_id is not in the council are skipped
RECURSIVE Validate(_, _, _)
Validate(entries, c, kept) ==
    IF entries = <<>> THEN kept
    ELSE LET item == Head(entries)
         IN  IF item.advisor_id \notin SeqRange(c.advisors)
             THEN Validate(Tail(entries), c, kept)
             ELSE Validate(Tail(entries), c,
                           Append(kept, [advisor_id |-> item.advisor_id,
                                         model |-> AssignModel(item.model, c.models, kept),
                                         reasoning |-> "routed"]))

\* mutant of Trim: the validated list is returned whole
Trim_Nothing(validated, hi) == validated

\* routing.py:199: validated[:max_advisors]
Trim(validated, hi) == SubSeq(validated, 1, Min(hi, Len(validated)))

\* routing.py:119-204, stage0_route_question: the panel returned for the
\* council c when the routing call comes to reply
Stage0RouteQuestion(c, reply) ==
    IF c.advisors = <<>> THEN <<>>
    ELSE IF reply.kind \in {"raise", "none", "empty", "text", "nopanel"}
    THEN FallbackPanel(c.advisors, c.models, c.default)
    ELSE LET validated == Validate(reply.entries, c, <<>>)
         IN  IF Len(validated) < c.min
             THEN FallbackPanel(c.advisors, c.models, c.default)
             ELSE Trim(validated, c.max)

NoReply == [kind |-> "unasked", entries |-> <<>>]

\* the router is invoked on a valid council; fallbacks collects the panels
\* it has returned as fallback for this council, and repeat tells that the
\* invocation under way follows one that fell back
RouterInit ==
    /\ PipelineStart
    /\ mode = "full" /\ ~forceDirect /\ ~panelOverride
    /\ classifier = NoClassifier
    /\ PartsAtRest
    /\ \E c \in ValidCouncils :
         router = [pc |-> "ask", council |-> c, reply |-> NoReply,
                   panel |-> <<>>, fallbacks |-> {}, repeat |-> FALSE]

\* routing.py:166-168: the routing backend is queried and comes to a reply
RouterAsk ==
    /\ router.pc = "ask"
    /\ \E r \in RouterReplies(router.council) :
         router' = [router EXCEPT !.pc = "asked", !.reply = r, !.panel = <<>>,
                                   !.repeat = (router.fallbacks # {})]
    /\ UNCHANGED <<pipelineVars, classifier, partVars>>

\* the reply leads to the fallback panel: routing.py:171-176,196-197,202-204
UsesFallback(c, reply) ==
    \/ reply.kind \in {"raise", "none", "empty", "text", "nopanel"}
    \/ reply.kind = "panel" /\ Len(Validate(reply.entries, c, <<>>)) < c.min

\* routing.py:169-204: the reply is validated and the panel returned
RouterReturn ==
    /\ router.pc = "asked"
    /\ LET p == Stage0RouteQuestion(router.council, router.reply)
       IN  router' = [router EXCEPT
                        !.pc = "returned", !.panel = p,
                        !.fallbacks = IF UsesFallback(router.council, router.reply)
                                      THEN @ \cup {p} ELSE @]
    /\ UNCHANGED <<pipelineVars, classifier, partVars>>

\* main.py:392: the next request routes on the same council
RouterAgain ==
    /\ router.pc = "returned"
    /\ router' = [router EXCEPT !.pc = "ask", !.reply = NoReply, !.panel = <<>>]
    /\ UNCHANGED <<pipelineVars, classifier, partVars>>

RouterNext == RouterAsk \/ RouterReturn \/ RouterAgain

RouterSpec == RouterInit /\ [][RouterNext]_vars

\* ------------------------------------- the classifier, routing.py:14-110
\* What _is_followup_heuristic looks at in a message: whether there is
\* history, whether the message holds a follow-up phrase, has at most 15
\* words, holds a context pronoun, holds a definitional opener.
Queries ==
    [hasHistory : BOOLEAN, phrase : BOOLEAN, short : BOOLEAN,
     pronoun : BOOLEAN, opener : BOOLEAN]

\* routing.py:14-52, _is_followup_heuristic: "followup", or "none" for None
IsFollowupHeuristic(q) ==
    IF ~q.hasHistory THEN "none"
    ELSE IF q.phrase THEN "followup"
    ELSE IF q.short /\ q.pronoun /\ ~q.opener THEN "followup"
    ELSE "none"

\* The JSON values a reply may hold: an object with a "type" member (of a
\* known class or not) or without one, a falsy value ({} or null), a list
\* with or without the element "type", a number.
TypeValues == MsgTypes \cup {"direct", "other"}
JsonValues ==
    {[shape |-> "object", type |-> t] : t \in TypeValues \cup {"absent"}}
    \cup {[shape |-> sh, type |-> "absent"] :
            sh \in {"falsy", "list", "listWithType", "number"}}
Bad == [shape |-> "bad", type |-> "absent"]

\* A reply's content, by what the three attempts of
\* extract_json_from_response find in it: the whole text as JSON, the body
\* of its first code fence, its outermost braces (an object, if anything).
Texts ==
    {[whole |-> w, fenced |-> f, braces |-> b] :
        w \in {Bad, [shape |-> "object", type |-> "chat"], [shape |-> "number", type |-> "absent"]},
        f \in JsonValues \cup {Bad},
        b \in {v \in JsonValues : v.shape = "object"} \cup {Bad}}

\* utils.py:119-136, extract_json_from_response: the first attempt that
\* parses; Bad stands for None
ExtractJsonFromResponse(text) ==
    IF text.whole # Bad THEN text.whole
    ELSE IF text.fenced # Bad THEN text.fenced
    ELSE text.braces

\* what the backend call of routing.py:97 comes to
ClassifierReplies ==
    {[kind |-> k, text |-> [whole |-> Bad, fenced |-> Bad, braces |-> Bad]] :
        k \in {"raise", "none", "empty"}}
    \cup {[kind |-> "content", text |-> t] : t \in Texts}

Returned(t) == [raised |-> FALSE, type |-> t]
Raised == [raised |-> TRUE, type |-> "none"]

\* routing.py:97-108, the body of the try block: what it returns, or that
\* it raises (the call itself, `"type" in` on a number, indexing a list
\* with "type")
ClassifyBody(reply) ==
    IF reply.kind = "raise" THEN Raised
    ELSE IF reply.kind \in {"none", "empty"} THEN Returned("deliberation")
    ELSE LET result == ExtractJsonFromResponse(reply.text)
         IN  IF result = Bad \/ result.shape = "falsy" THEN Returned("deliberation")
             ELSE IF result.shape = "number" THEN Raised
             ELSE IF result.shape = "listWithType" THEN Raised
             ELSE IF result.shape = "list" \/ result.type = "absent"
             THEN Returned("deliberation")
             ELSE IF result.type \notin MsgTypes THEN Returned("deliberation")
             ELSE Returned(result.type)

\* mutant of ClassifyExcept: the exception is let through
ClassifyExcept_Reraise(outcome) == outcome

\* routing.py:109-110: except Exception returns deliberation
ClassifyExcept(outcome) ==
    IF outcome.raised THEN Returned("deliberation") ELSE outcome

\* routing.py:55-110, classify_message, past the heuristic
ClassifyMessage(reply) == ClassifyExcept(ClassifyBody(reply))

NoAnswer == [kind |-> "unasked", text |-> [whole |-> Bad, fenced |-> Bad, braces |-> Bad]]

ClassifierInit ==
    /\ PipelineStart
    /\ mode = "full" /\ ~forceDirect /\ ~panelOverride
    /\ router = NoRouter
    /\ PartsAtRest
    /\ \E q \in Queries :
         classifier = [pc |-> "start", query |-> q, reply |-> NoAnswer,
                       result |-> Raised]

\* routing.py:61-64: the heuristic answers and no backend is called
ClassifierHeuristic ==
    /\ classifier.pc = "start"
    /\ IsFollowupHeuristic(classifier.query) # "none"
    /\ classifier' = [classifier EXCEPT
                        !.pc = "returned",
                        !.result = Returned(IsFollowupHeuristic(classifier.query))]
    /\ UNCHANGED <<pipelineVars, router, partVars>>

\* routing.py:66-97: the prompt is built and the backend queried
ClassifierAsk ==
    /\ classifier.pc = "start"
    /\ IsFollowupHeuristic(classifier.query) = "none"
    /\ classifier' = [classifier EXCEPT !.pc = "asked"]
    /\ UNCHANGED <<pipelineVars, router, partVars>>

\* routing.py:97-110: the call comes to a reply and classify_message ends
ClassifierAnswer ==
    /\ classifier.pc = "asked"
    /\ \E r \in ClassifierReplies :
         classifier' = [classifier EXCEPT
                          !.pc = "returned", !.reply = r,
                          !.result = ClassifyMessage(r)]
    /\ UNCHANGED <<pipelineVars, router, partVars>>

ClassifierNext == ClassifierHeuristic \/ ClassifierAsk \/ ClassifierAnswer

ClassifierSpec == ClassifierInit /\ [][ClassifierNext]_vars

\* ------------------------------------ the aggregator, analysis.py:216-269
\* largest number of evaluators whose rankings are aggregated
MaxEvaluators == 3
\* the labels the evaluators rank: Response A, B and C
ScoreLabels == {65, 66, 67}

\* mutant of WeightedScores: an entry at 0-based index i of a ranking of n
\* labels adds n - i - 1, the last one nothing
WeightedScores_LastGetsNothing(rks) ==
    [c \in ScoreLabels |->
        CalculateWeightedRankings(rks, c)
          - Cardinality({e \in 1..Len(rks) : PosIn(rks[e], c) # 0})]

\* analysis.py:233-252: the scores dict; a label that is no key of it is
\* given 0 here, and ScoreKeys tells the keys
WeightedScores(rks) == [c \in ScoreLabels |-> CalculateWeightedRankings(rks, c)]

\* the ranking r without the label c
Without(r, c) == LET other(x) == x # c IN SelectSeq(r, other)

NoChange == [kind |-> "none", ranking |-> <<>>, label |-> 0]

\* stage2.py:171-176: the analysis starts with no ranking collected
ScoringInit ==
    /\ PipelineStart
    /\ mode = "full" /\ ~forceDirect /\ ~panelOverride
    /\ router = NoRouter /\ classifier = NoClassifier
    /\ leaderboard = NoLeaderboard /\ stream = NoStream /\ usage = NoUsage
    /\ scoring = [pc |-> "on", rks |-> <<>>, scores |-> WeightedScores(<<>>),
                  top |-> 0, prev |-> WeightedScores(<<>>), change |-> NoChange]

\* mutant of ScoringAdd: the new evaluator's ranking is counted twice
ScoringAdd_CountedTwice ==
    /\ scoring.pc = "on"
    /\ Len(scoring.rks) < MaxEvaluators
    /\ \E r \in Rankings(ScoreLabels) :
         LET rks == Append(scoring.rks, r)
         IN  scoring' = [scoring EXCEPT
                           !.rks = rks,
                           !.scores = WeightedScores(Append(rks, r)),
                           !.top = GetTopResponse(rks),
                           !.prev = scoring.scores,
                           !.change = [kind |-> "add", ranking |-> r, label |-> 0]]
    /\ UNCHANGED <<pipelineVars, stage0Vars, leaderboard, stream, usage>>

\* stage2.py:161-176: one more evaluator returns the parsed ranking r and
\* the rankings are aggregated
ScoringAdd ==
    /\ scoring.pc = "on"
    /\ Len(scoring.rks) < MaxEvaluators
    /\ \E r \in Rankings(ScoreLabels) :
         LET rks == Append(scoring.rks, r)
         IN  scoring' = [scoring EXCEPT
                           !.rks = rks,
                           !.scores = WeightedScores(rks),
                           !.top = GetTopResponse(rks),
                           !.prev = scoring.scores,
                           !.change = [kind |-> "add", ranking |-> r, label |-> 0]]
    /\ UNCHANGED <<pipelineVars, stage0Vars, leaderboard, stream, usage>>

\* ranking.py:13-19, stage2.py:171-176: the same rankings, but the text of
\* evaluator e does not list the label c; they are aggregated again
ScoringOmit ==
    /\ scoring.pc = "on"
    /\ \E e \in 1..Len(scoring.rks) :
         \E c \in {scoring.rks[e][a] : a \in 1..Len(scoring.rks[e])} :
           LET rks == [scoring.rks EXCEPT ![e] = Without(@, c)]
           IN  scoring' = [scoring EXCEPT
                             !.rks = rks,
                             !.scores = WeightedScores(rks),
                             !.top = GetTopResponse(rks),
                             !.prev = scoring.scores,
                             !.change = [kind |-> "omit", ranking |-> scoring.rks[e],
                                         label |-> c]]
    /\ UNCHANGED <<pipelineVars, stage0Vars, leaderboard, stream, usage>>

ScoringNext == ScoringAdd \/ ScoringOmit

ScoringSpec == ScoringInit /\ [][ScoringNext]_vars

\* ------------------------------------------ the leaderboard, leaderboard.py
\* leaderboard.py:78-79, 93-94: the capacity of a window
WindowCap == 50
\* largest number of record_deliberation_result calls followed
MaxCalls == 3
\* the backends that take part, the requests that run at the same time
\* and the rubric criteria
Backends == {1, 2}
Requests == {1, 2}
Criteria == {"clarity"}

RECURSIVE SumSeq(_)
SumSeq(w) == IF w = <<>> THEN 0 ELSE Head(w) + SumSeq(Tail(w))

\* a window written by earlier runs: n entries, positions 1 and 2 in turn
StoredWindow(n) == [a \in 1..n |-> 1 + (a % 2)]

\* the entry of a backend whose windows hold n entries
StoredEntry(n) ==
    [wins |-> 0, participations |-> n, total_score |-> n,
     avg_position |-> <<SumSeq(StoredWindow(n)), n>>,
     positions |-> StoredWindow(n),
     rubric_scores |-> [c \in Criteria |-> StoredWindow(n)]]

\* leaderboard.py:13-21: the councils of the file; an empty one when the
\* file does not exist
StoredCouncil(n) == IF n = 0 THEN <<>> ELSE [b \in Backends |-> StoredEntry(n)]

\* mutant of LoadLeaderboard: every call starts from an empty leaderboard
LoadLeaderboard_Fresh(file) == <<>>

\* leaderboard.py:13-21
LoadLeaderboard(file) == file

\* leaderboard.py:34-42
NewEntry ==
    [wins |-> 0, participations |-> 0, total_score |-> 0,
     avg_position |-> <<0, 0>>, positions |-> <<>>, rubric_scores |-> <<>>]

\* leaderboard.py:32-43
EnsureModelEntry(council, b) ==
    IF b \in DOMAIN council THEN council ELSE council @@ (b :> NewEntry)

\* mutant of KeepLast: the window keeps its oldest entries
KeepLast_Oldest(w) == IF Len(w) > WindowCap THEN SubSeq(w, 1, WindowCap) ELSE w

\* leaderboard.py:78-79, 93-94: w[-50:] when w is longer than 50
KeepLast(w) ==
    IF Len(w) > WindowCap THEN SubSeq(w, Len(w) - WindowCap + 1, Len(w)) ELSE w

\* the inputs of a call: model_scores in the insertion order of the dict,
\* the scores 2 and 1 or 1 and 1 when there are two backends
ModelScores ==
    {<<[m |-> b, s |-> 1]>> : b \in Backends}
      \cup {<<[m |-> b, s |-> x], [m |-> c, s |-> 1]>> :
               <<b, c, x>> \in {t \in Backends \X Backends \X {1, 2} : t[1] # t[2]}}
Keys(ms) == {ms[a].m : a \in 1..Len(ms)}
\* the score every criterion gets in a call's rubric_scores
RubricScore == 3

\* leaderboard.py:69: sorted by score, highest first, stable
SortedModels(ms) ==
    LET place(a) == 1 + Cardinality({x \in 1..Len(ms) : ms[x].s > ms[a].s})
                      + Cardinality({x \in 1..(a - 1) : ms[x].s = ms[a].s})
    IN  [p \in 1..Len(ms) |-> ms[CHOOSE a \in 1..Len(ms) : place(a) = p]]

\* leaderboard.py:87-94: the rubric windows of an entry after a call whose
\* rubric_scores names the backend
RubricRecorded(rs) ==
    [c \in Criteria |->
        KeepLast(Append(IF c \in DOMAIN rs THEN rs[c] ELSE <<>>, RubricScore))]

\* leaderboard.py:72-94: one pass of the loop
RecordOne(council, position, item, winner, rub) ==
    LET ensured == EnsureModelEntry(council, item.m)
        entry == ensured[item.m]
        window == KeepLast(Append(entry.positions, position))
    IN  [ensured EXCEPT ![item.m] =
            [wins |-> entry.wins + (IF item.m = winner THEN 1 ELSE 0),
             participations |-> entry.participations + 1,
             total_score |-> entry.total_score + item.s,
             avg_position |-> <<SumSeq(window), Len(window)>>,
             positions |-> window,
             rubric_scores |-> IF item.m \in rub
                               THEN RubricRecorded(entry.rubric_scores)
                               ELSE entry.rubric_scores]]

\* leaderboard.py:71: the loop over enumerate(sorted_models, 1)
RECURSIVE RecordLoop(_, _, _, _, _)
RecordLoop(council, sorted, position, winner, rub) ==
    IF position > Len(sorted) THEN council
    ELSE RecordLoop(RecordOne(council, position, sorted[position], winner, rub),
                    sorted, position + 1, winner, rub)

\* leaderboard.py:46-96: load, update, save
RecordDeliberationResult(file, ms, winner, rub) ==
    RecordLoop(LoadLeaderboard(file), SortedModels(ms), 1, winner, rub)

\* the leaderboard file as earlier runs left it, and two requests running
LeaderboardInit ==
    /\ PipelineStart
    /\ mode = "full" /\ ~forceDirect /\ ~panelOverride
    /\ router = NoRouter /\ classifier = NoClassifier
    /\ scoring = NoScoring /\ stream = NoStream /\ usage = NoUsage
    /\ \E n \in {0, WindowCap - 1, WindowCap} :
         leaderboard = [pc |-> "on", file |-> StoredCouncil(n), stored |-> n,
                        req |-> [r \in Requests |-> "stage2"], log |-> <<>>]

\* stage2.py:159-192: the rankings of request r are gathered and scored;
\* nothing is awaited from here to the end of the update
LeaderboardReady(r) ==
    /\ leaderboard.pc = "on"
    /\ leaderboard.req[r] = "stage2"
    /\ Len(leaderboard.log)
         + Cardinality({q \in Requests : leaderboard.req[q] = "scored"}) < MaxCalls
    /\ leaderboard' = [leaderboard EXCEPT !.req[r] = "scored"]
    /\ UNCHANGED <<pipelineVars, stage0Vars, scoring, stream, usage>>

\* stage2.py:192-193, leaderboard.py:46-96: request r records its result
\* and the connection takes the next message
LeaderboardRecord(r) ==
    /\ leaderboard.pc = "on"
    /\ leaderboard.req[r] = "scored"
    /\ \E ms \in ModelScores :
         \E winner \in Keys(ms) :
           \E rub \in SUBSET Keys(ms) :
             leaderboard' =
               [leaderboard EXCEPT
                  !.file = RecordDeliberationResult(@, ms, winner, rub),
                  !.req[r] = "stage2",
                  !.log = Append(@, [r |-> r, ms |-> ms, rub |-> rub])]
    /\ UNCHANGED <<pipelineVars, stage0Vars, scoring, stream, usage>>

LeaderboardNext == \E r \in Requests : LeaderboardReady(r) \/ LeaderboardRecord(r)

LeaderboardSpec == LeaderboardInit /\ [][LeaderboardNext]_vars

\* ------------------- one call of record_deliberation_result, any council
CouncilIds == {"personal", "protocol"}

\* data["councils"] as earlier runs left it: the councils that have entries
StoredCouncils(n) ==
    [c \in {d \in CouncilIds : n[d] > 0} |-> StoredCouncil(n[c])]

\* model_scores with any scores, in any insertion order
AnyModelScores ==
    {<<[m |-> b, s |-> x]>> : <<b, x>> \in Backends \X {1, 2}}
      \cup {<<[m |-> t[1], s |-> t[3]], [m |-> t[2], s |-> t[4]]>> :
               t \in {u \in Backends \X Backends \X {1, 2} \X {1, 2} : u[1] # u[2]}}

\* mutant of SortedCouncilModels: the positions follow the insertion order
SortedCouncilModels_Unsorted(ms) == ms

\* leaderboard.py:69
SortedCouncilModels(ms) == SortedModels(ms)

\* leaderboard.py:61-96: the council is created when it has no entry yet,
\* its entries are updated and the data saved
RecordInCouncil(councils, council_id, ms, winner, rub) ==
    LET data == LoadLeaderboard(councils)
        ensured == IF council_id \in DOMAIN data THEN data
                   ELSE data @@ (council_id :> <<>>)
    IN  [ensured EXCEPT
           ![council_id] = RecordLoop(@, SortedCouncilModels(ms), 1, winner, rub)]

NoArgs == [council_id |-> "", ms |-> <<>>, winner |-> 0, rub |-> {}]

\* the leaderboard file before the call
RecordInit ==
    /\ PipelineStart
    /\ mode = "full" /\ ~forceDirect /\ ~panelOverride
    /\ router = NoRouter /\ classifier = NoClassifier
    /\ scoring = NoScoring /\ stream = NoStream /\ usage = NoUsage
    /\ \E n \in [CouncilIds -> {0, WindowCap - 1, WindowCap}] :
         leaderboard = [pc |-> "call", data |-> StoredCouncils(n),
                        before |-> StoredCouncils(n), args |-> NoArgs]

\* leaderboard.py:46-96: the call
RecordCall ==
    /\ leaderboard.pc = "call"
    /\ \E council_id \in CouncilIds : \E ms \in AnyModelScores :
         \E winner \in Backends : \E rub \in SUBSET Keys(ms) :
           leaderboard' =
             [leaderboard EXCEPT
                !.pc = "returned",
                !.data = RecordInCouncil(@, council_id, ms, winner, rub),
                !.args = [council_id |-> council_id, ms |-> ms,
                          winner |-> winner, rub |-> rub]]
    /\ UNCHANGED <<pipelineVars, stage0Vars, scoring, stream, usage>>

RecordNext == RecordCall

RecordSpec == RecordInit /\ [][RecordNext]_vars

\* ------- the streaming operation, openrouter.py:134-203 and the Ollama one
\* largest number of lines read from one response
MaxLines == 4
Providers == {"openrouter", "ollama"}

\* what a line of the response can be: one that is skipped (empty, no
\* "data: " prefix, no JSON), a content delta, a reasoning delta, both, and
\* JSON of another shape, on which the handling raises; the Ollama
\* operation reads no reasoning
LineKinds(provider) ==
    IF provider = "ollama" THEN {"skip", "token", "malformed"}
    ELSE {"skip", "token", "thinking", "both", "malformed"}

\* openrouter.py:182-194, ollama_provider.py:104-109: the chunks of a line
LineChunks(kind) ==
    CASE kind = "token" -> <<"token">>
      [] kind = "thinking" -> <<"thinking">>
      [] kind = "both" -> <<"thinking", "token">>
      [] kind = "malformed" -> <<"error">>
      [] OTHER -> <<>>

\* ollama_provider.py:94-102: the line with the done flag yields complete;
\* openrouter.py:173-174: [DONE] yields nothing by itself
DoneChunks(provider) == IF provider = "ollama" THEN <<"complete">> ELSE <<>>

\* mutant of AfterDone: the Ollama operation does not return after the
\* chunk of the done line
AfterDone_FallsThrough(provider) == "closing"

\* ollama_provider.py:103: return; openrouter.py:174: break
AfterDone(provider) == IF provider = "ollama" THEN "end" ELSE "closing"

\* a call of the operation, before the request is sent
StreamInit ==
    /\ PipelineStart
    /\ mode = "full" /\ ~forceDirect /\ ~panelOverride
    /\ router = NoRouter /\ classifier = NoClassifier
    /\ scoring = NoScoring /\ leaderboard = NoLeaderboard /\ usage = NoUsage
    /\ \E provider \in Providers :
         stream = [pc |-> "connect", provider |-> provider, read |-> 0, out |-> <<>>]

\* openrouter.py:162-169: the connection fails or the status is an error
StreamConnectFails ==
    /\ stream.pc = "connect"
    /\ stream' = [stream EXCEPT !.pc = "end", !.out = Append(@, "error")]
    /\ UNCHANGED <<pipelineVars, stage0Vars, scoring, leaderboard, usage>>

\* openrouter.py:162-169: the response starts
StreamConnected ==
    /\ stream.pc = "connect"
    /\ stream' = [stream EXCEPT !.pc = "lines"]
    /\ UNCHANGED <<pipelineVars, stage0Vars, scoring, leaderboard, usage>>

\* openrouter.py:170-196: one line of the response
StreamLine ==
    /\ stream.pc = "lines"
    /\ stream.read < MaxLines
    /\ \E kind \in LineKinds(stream.provider) :
         stream' = [stream EXCEPT
                      !.pc = IF kind = "malformed" THEN "end" ELSE "lines",
                      !.read = @ + 1,
                      !.out = @ \o LineChunks(kind)]
    /\ UNCHANGED <<pipelineVars, stage0Vars, scoring, leaderboard, usage>>

\* openrouter.py:173-174, ollama_provider.py:94-103: the line that ends
\* the response
StreamDone ==
    /\ stream.pc = "lines"
    /\ stream' = [stream EXCEPT
                    !.pc = AfterDone(stream.provider),
                    !.out = @ \o DoneChunks(stream.provider)]
    /\ UNCHANGED <<pipelineVars, stage0Vars, scoring, leaderboard, usage>>

\* openrouter.py:170: the response ends without such a line
StreamEof ==
    /\ stream.pc = "lines"
    /\ stream' = [stream EXCEPT !.pc = "closing"]
    /\ UNCHANGED <<pipelineVars, stage0Vars, scoring, leaderboard, usage>>

\* openrouter.py:170, 200-203: reading the response fails
StreamTransportFails ==
    /\ stream.pc = "lines"
    /\ stream' = [stream EXCEPT !.pc = "end", !.out = Append(@, "error")]
    /\ UNCHANGED <<pipelineVars, stage0Vars, scoring, leaderboard, usage>>

\* openrouter.py:198: after the loop, outside the connection
StreamComplete ==
    /\ stream.pc = "closing"
    /\ stream' = [stream EXCEPT !.pc = "end", !.out = Append(@, "complete")]
    /\ UNCHANGED <<pipelineVars, stage0Vars, scoring, leaderboard, usage>>

StreamNext ==
    \/ StreamConnectFails
    \/ StreamConnected
    \/ StreamLine
    \/ StreamDone
    \/ StreamEof
    \/ StreamTransportFails
    \/ StreamComplete

StreamSpec == StreamInit /\ [][StreamNext]_vars

\* --------------------- the retry wrapper, openrouter.py:26-79 and 82-112
\* largest max_retries of a call
MaxRetries == 3

\* how one HTTP exchange can end: a reply of the expected shape, a 4xx
\* status, a 5xx status, a transport error (connection, timeout), and a
\* 200 reply of another shape
QueryOutcomes == {"ok", "http4xx", "http5xx", "transport", "schema"}

\* openrouter.py:45-79, query_model: the reply's dict, or None for whatever
\* went wrong: HTTPStatusError and every other Exception are caught inside
QueryModel(outcome) == IF outcome = "ok" THEN "result" ELSE "None"

\* openrouter.py:103-110: query_model raises nothing the wrapper could
\* catch, so the handler with the sleep never runs
QueryRaises(outcome) == FALSE

\* openrouter.py:105-108: the wait before the next attempt
WaitTime(attempt) == 2 ^ attempt

\* a call of the wrapper, before the first attempt
RetryInit ==
    /\ PipelineStart
    /\ mode = "full" /\ ~forceDirect /\ ~panelOverride
    /\ router = NoRouter /\ classifier = NoClassifier
    /\ scoring = NoScoring /\ leaderboard = NoLeaderboard /\ usage = NoUsage
    /\ \E max_retries \in 0..MaxRetries :
         stream = [pc |-> "loop", max_retries |-> max_retries, attempt |-> 0,
                   outcomes |-> <<>>, sleeps |-> <<>>, result |-> "None"]

\* openrouter.py:98-110: one pass of the loop
RetryAttempt ==
    /\ stream.pc = "loop"
    /\ stream.attempt < stream.max_retries + 1
    /\ \E outcome \in QueryOutcomes :
         LET result == QueryModel(outcome)
             slept == IF QueryRaises(outcome) /\ stream.attempt < stream.max_retries
                      THEN <<WaitTime(stream.attempt)>> ELSE <<>>
         IN  stream' = [stream EXCEPT
                          !.outcomes = Append(@, outcome),
                          !.sleeps = @ \o slept,
                          !.attempt = IF result # "None" THEN @ ELSE @ + 1,
                          !.result = result,
                          !.pc = IF result # "None" THEN "returned" ELSE "loop"]
    /\ UNCHANGED <<pipelineVars, stage0Vars, scoring, leaderboard, usage>>

\* openrouter.py:112: the loop is over, None is returned
RetryExhausted ==
    /\ stream.pc = "loop"
    /\ stream.attempt = stream.max_retries + 1
    /\ stream' = [stream EXCEPT !.pc = "returned", !.result = "None"]
    /\ UNCHANGED <<pipelineVars, stage0Vars, scoring, leaderboard, usage>>

RetryNext ==
    \/ RetryAttempt
    \/ RetryExhausted

RetrySpec == RetryInit /\ [][RetryNext]_vars

\* ------------------------- the usage aggregator, council/utils.py:78-114
\* largest number of record calls of one request
MaxRecords == 3
UsageFields == {"prompt_tokens", "completion_tokens", "total_tokens", "cost"}
\* the stages whose usage is recorded and announced, and the one recorded
\* before done
UsageStages == {"routing", "stage1", "stage2"}
TitleStage == "title"

\* the usage records of a reply: the keys it has and their values (the
\* cost in whole units); an empty dict, one with every field, one without cost
EmptyUsage == [keys |-> {}, v |-> [f \in UsageFields |-> 0]]
Usages ==
    {EmptyUsage,
     [keys |-> UsageFields,
      v |-> [f \in UsageFields |-> IF f = "total_tokens" THEN 3 ELSE 1]],
     [keys |-> UsageFields \ {"cost"},
      v |-> [f \in UsageFields |-> IF f = "total_tokens" THEN 5 ELSE 2]]}

\* utils.py:93: c["usage"].get(f, 0)
UsageGet(u, f) == IF f \in u.keys THEN u.v[f] ELSE 0

\* mutant of Record: the call is recorded whatever its usage
Record_Always(calls, stg, u) == Append(calls, [stage |-> stg, usage |-> u])

\* utils.py:83-88
Record(calls, stg, u) ==
    IF u.keys # {} THEN Append(calls, [stage |-> stg, usage |-> u]) ELSE calls

RECURSIVE SumField(_, _)
SumField(calls, f) ==
    IF calls = <<>> THEN 0 ELSE UsageGet(Head(calls).usage, f) + SumField(Tail(calls), f)

\* utils.py:100-107
GetTotal(calls) ==
    [f \in UsageFields \cup {"calls"} |->
        IF f = "calls" THEN Len(calls) ELSE SumField(calls, f)]

\* utils.py:90-98
GetStageSummary(calls, stg) ==
    LET of(c) == c.stage = stg IN GetTotal(SelectSeq(calls, of))

\* utils.py:109-114
GetBreakdown(calls) ==
    [by_stage |-> [st \in {calls[a].stage : a \in 1..Len(calls)} |->
                     GetStageSummary(calls, st)],
     total |-> GetTotal(calls)]

NoEvent == [type |-> "none"]

\* main.py:325: a new aggregator; the client has seen no summary yet
UsageInit ==
    /\ PipelineStart
    /\ mode = "full" /\ ~forceDirect /\ ~panelOverride
    /\ router = NoRouter /\ classifier = NoClassifier
    /\ scoring = NoScoring /\ leaderboard = NoLeaderboard /\ stream = NoStream
    /\ usage = [pc |-> "on", calls |-> <<>>, stage |-> "none", n |-> 0,
                last |-> "none", before |-> GetBreakdown(<<>>),
                sent |-> NoEvent,
                seen |-> [st \in UsageStages |-> GetTotal(<<>>)]]

\* main.py:473-475: the usage of one call of the stage is recorded
UsageRecord ==
    /\ usage.pc = "on"
    /\ usage.n < MaxRecords
    /\ \E st \in UsageStages :
         /\ usage.stage \in {"none", st}
         /\ \E u \in Usages :
              usage' = [usage EXCEPT
                          !.calls = Record(@, st, u),
                          !.stage = st,
                          !.n = @ + 1,
                          !.last = IF u.keys = {} THEN "empty" ELSE "filled",
                          !.before = GetBreakdown(usage.calls)]
    /\ UNCHANGED <<pipelineVars, stage0Vars, scoring, leaderboard, stream>>

\* main.py:476: the usage_update of the stage, right after its records
UsageUpdate ==
    /\ usage.pc = "on"
    /\ \E st \in UsageStages :
         /\ usage.stage \in {"none", st}
         /\ usage' = [usage EXCEPT
                        !.stage = "none",
                        !.sent = [type |-> "usage_update", stage |-> st,
                                  usage |-> GetStageSummary(usage.calls, st),
                                  running_total |-> GetTotal(usage.calls)],
                        !.seen[st] = GetStageSummary(usage.calls, st)]
    /\ UNCHANGED <<pipelineVars, stage0Vars, scoring, leaderboard, stream>>

\* main.py:676-680: the usage of the title is recorded and done carries
\* the breakdown
UsageDone ==
    /\ usage.pc = "on"
    /\ usage.stage = "none"
    /\ \E u \in Usages :
         LET calls == Record(usage.calls, TitleStage, u)
         IN  usage' = [usage EXCEPT
                         !.pc = "done",
                         !.calls = calls,
                         !.last = IF u.keys = {} THEN "empty" ELSE "filled",
                         !.before = GetBreakdown(usage.calls),
                         !.sent = [type |-> "done", usage |-> GetBreakdown(calls)]]
    /\ UNCHANGED <<pipelineVars, stage0Vars, scoring, leaderboard, stream>>

UsageNext == UsageRecord \/ UsageUpdate \/ UsageDone

UsageSpec == UsageInit /\ [][UsageNext]_vars

\* ------------- conflicts and minority opinions, analysis.py:11-213
\* the members of the panel, all of which answered in stage 1, and the
\* backends of the council
AnalysisPanel == 1..5
AnalysisModels == 1..3
\* routing.py:214-217: models[i % len(models)], the panel indexed from 0
PanelModel(i) == ((i - 1) % Cardinality(AnalysisModels)) + 1
\* stage2.py:35: the label of the i-th stage-1 result
PanelLabel(i) == 64 + i
AnalysisLabels == {PanelLabel(i) : i \in AnalysisPanel}
\* stage2.py:37-40
LabelToModel == [c \in AnalysisLabels |-> PanelModel(c - 64)]
\* analysis.py:90: {v: k for k, v in label_to_model.items()}; of the labels
\* of one backend the last is kept
ModelToLabel(l2model) ==
    LET owned(b) == {c \in DOMAIN l2model : l2model[c] = b}
    IN  [b \in {l2model[c] : c \in DOMAIN l2model} |->
           CHOOSE c \in owned(b) : \A d \in owned(b) : d <= c]

\* the parsed rankings an evaluator may return: the labels in panel order,
\* started at any label, or in reverse order, cut after any number of them
RankingOrders ==
    {[a \in 1..5 |-> 65 + ((a - 1 + k) % 5)] : k \in 0..4}
      \cup {[a \in 1..5 |-> 70 - a]}
ParsedRankings == {SubSeq(o, 1, k) : o \in RankingOrders, k \in 0..5}

\* analysis.py:35-45: the position maps, keyed by the backend id of the
\* ranker; a map is the ranking itself, the position of a label its index
PositionMaps(rks) ==
    LET placed == {k \in 1..Len(rks) : rks[k].parsed # <<>>}
        latest(b) == CHOOSE k \in placed :
                        /\ rks[k].model = b
                        /\ \A j \in placed : rks[j].model = b => j <= k
    IN  [b \in {rks[k].model : k \in placed} |-> rks[latest(b)].parsed]

Conflict(type, response, models, severity, spread) ==
    [type |-> type, response |-> response, models |-> models,
     severity |-> severity, spread |-> spread]

\* analysis.py:47-87
RankingSwaps(maps) ==
    LET labels == UNION {{maps[b][a] : a \in 1..Len(maps[b])} : b \in DOMAIN maps}
        placing(c) == {b \in DOMAIN maps : PosIn(maps[b], c) # 0}
        minPos(c) == CHOOSE x \in {PosIn(maps[b], c) : b \in placing(c)} :
                        \A b \in placing(c) : x <= PosIn(maps[b], c)
        maxPos(c) == CHOOSE x \in {PosIn(maps[b], c) : b \in placing(c)} :
                        \A b \in placing(c) : x >= PosIn(maps[b], c)
        spread(c) == maxPos(c) - minPos(c)
    IN  {Conflict("ranking_swap", c, {},
                  IF spread(c) >= 4 THEN "high"
                  ELSE IF spread(c) >= 3 THEN "medium" ELSE "low",
                  spread(c)) :
           c \in {d \in labels : Cardinality(placing(d)) >= 2 /\ spread(d) >= 2}}

\* analysis.py:89-125
MutualOppositions(maps, l2model) ==
    LET m2l == ModelToLabel(l2model)
        opposed(a, b) ==
            /\ a \in DOMAIN m2l /\ b \in DOMAIN m2l
            /\ LET n == IF Len(maps[a]) >= Len(maps[b]) THEN Len(maps[a])
                         ELSE Len(maps[b])
                    threshold == IF n - 1 >= 3 THEN n - 1 ELSE 3
               IN  /\ n >= 3
                   /\ PosIn(maps[a], m2l[b]) >= threshold
                   /\ PosIn(maps[b], m2l[a]) >= threshold
    IN  {Conflict("mutual_opposition", 0, {pair[1], pair[2]}, "high", 0) :
           pair \in {q \in (DOMAIN maps) \X (DOMAIN maps) :
                        q[1] < q[2] /\ opposed(q[1], q[2])}}

\* analysis.py:11-127
DetectRankingConflicts(rks, l2model) ==
    IF Len(rks) < 2 THEN {}
    ELSE RankingSwaps(PositionMaps(rks))
           \cup MutualOppositions(PositionMaps(rks), l2model)

\* mutant of MinDissenters: every evaluator has to dissent
MinDissenters_Everyone(n) == n

\* analysis.py:164: max(1, int(num_rankers * 0.3))
MinDissenters(n) == IF (3 * n) \div 10 >= 1 THEN (3 * n) \div 10 ELSE 1

\* analysis.py:156-161: the positions of a label, one for each evaluator
\* that placed it, in the order of the evaluators
PositionCounts(rks, c) ==
    LET placing(e) == PosIn(e.parsed, c) # 0
        by == SelectSeq(rks, placing)
    IN  [k \in 1..Len(by) |-> PosIn(by[k].parsed, c)]

\* analysis.py:176-189: zip(rankings, positions) pairs the k-th position
\* with the k-th evaluator; those at 1.5 or more from the average, above
\* it (sign = 1: ranked lower) or below it (sign = -1: ranked higher)
Dissenters(rks, c, sign) ==
    LET positions == PositionCounts(rks, c)
        n == Len(positions)
        total == SumSeq(positions)
    IN  {[slot |-> k, model |-> rks[k].model, position |-> positions[k]] :
           k \in {j \in 1..n : sign * 2 * (n * positions[j] - total) >= 3 * n}}

\* analysis.py:130-213
DetectMinorityOpinions(rks, l2model) ==
    IF Len(rks) < 3 THEN {}
    ELSE LET labels == UNION {{rks[k].parsed[a] : a \in 1..Len(rks[k].parsed)} :
                                k \in 1..Len(rks)}
             counted == {c \in labels : Len(PositionCounts(rks, c)) >= 2}
             entry(c, sign) ==
                 [response |-> c,
                  direction |-> IF sign = 1 THEN "lower" ELSE "higher",
                  details |-> Dissenters(rks, c, sign)]
         IN  {entry(q[1], q[2]) :
                q \in {x \in counted \X {1, -1} :
                         Cardinality(Dissenters(rks, x[1], x[2]))
                           >= MinDissenters(Len(rks))}}

\* stage2.py:158-165: no evaluator has returned yet
AnalysisInit ==
    /\ PipelineStart
    /\ mode = "full" /\ ~forceDirect /\ ~panelOverride
    /\ router = NoRouter /\ classifier = NoClassifier
    /\ leaderboard = NoLeaderboard /\ stream = NoStream /\ usage = NoUsage
    /\ scoring = [pc |-> "gather", rks |-> <<>>, maps |-> <<>>,
                  conflicts |-> {}, minority |-> {}]

\* stage2.py:134-141, 161-163: the next member of the panel that returns a
\* result, in the order of the panel; the others returned none
AnalysisGather ==
    /\ scoring.pc = "gather"
    /\ Len(scoring.rks) < MaxEvaluators
    /\ \E i \in AnalysisPanel :
         /\ \A k \in 1..Len(scoring.rks) : scoring.rks[k].m < i
         /\ \E r \in ParsedRankings :
              scoring' = [scoring EXCEPT
                            !.rks = Append(@, [m |-> i, model |-> PanelModel(i),
                                               parsed |-> r])]
    /\ UNCHANGED <<pipelineVars, stage0Vars, leaderboard, stream, usage>>

\* stage2.py:171-174
AnalysisDetect ==
    /\ scoring.pc = "gather"
    /\ scoring' = [scoring EXCEPT
                     !.pc = "analysed",
                     !.maps = PositionMaps(scoring.rks),
                     !.conflicts = DetectRankingConflicts(scoring.rks, LabelToModel),
                     !.minority = DetectMinorityOpinions(scoring.rks, LabelToModel)]
    /\ UNCHANGED <<pipelineVars, stage0Vars, leaderboard, stream, usage>>

AnalysisNext == AnalysisGather \/ AnalysisDetect

AnalysisSpec == AnalysisInit /\ [][AnalysisNext]_vars

\* ------------------------------------------------------------ properties
Stage1Types == {"stage1_start", "stage1_init", "stage1_progress", "stage1_token",
                "stage1_thinking", "stage1_model_complete", "stage1_model_error",
                "stage1_complete"}
Stage2Types == {"stage2_start", "stage2_init", "stage2_progress", "stage2_token",
                "stage2_thinking", "stage2_model_complete", "stage2_complete"}
StageTypes(N) == IF N = 1 THEN Stage1Types ELSE Stage2Types
InitType(N) == IF N = 1 THEN "stage1_init" ELSE "stage2_init"
StartType(N) == IF N = 1 THEN "stage1_start" ELSE "stage2_start"
CompleteType(N) == IF N = 1 THEN "stage1_complete" ELSE "stage2_complete"

\* the positions of s that hold an event of type t
At(s, t) == {i \in 1..Len(s) : s[i].type = t}
\* the positions of the sequence of types h that hold t
In(h, t) == {i \in 1..Len(h) : h[i] = t}
Last(h) == h[Len(h)]

\* C1 as stated: for N in {1,2} the client sees stageN_init exactly once and
\* before any other stageN_* event, stageN_complete after every other
\* stageN_* event, and no stageN_* event after stageN_complete.
C1_InitBeforeAnyStageEvent ==
    \A N \in {1, 2} :
      /\ Cardinality(At(seg, InitType(N))) <= 1
      /\ (At(seg, CompleteType(N)) # {} => Cardinality(At(seg, InitType(N))) = 1)
      /\ \A i \in 1..Len(seg) :
           (seg[i].type \in StageTypes(N) /\ seg[i].type # InitType(N))
             => \E j \in 1..(i - 1) : seg[j].type = InitType(N)
      /\ \A i \in At(seg, CompleteType(N)) :
           \A j \in 1..Len(seg) : (j # i /\ seg[j].type \in StageTypes(N)) => j < i

\* C1 as amended: the driver's own stageN_start opens the stage and is the
\* only stageN_* event before stageN_init; stageN_init is seen at most once,
\* exactly once before stageN_complete, and before every stageN_* event other
\* than stageN_start; stageN_complete comes after every other stageN_* event
\* and none follows it, in that stage's segment or in a later one.
C1_StageEventOrder ==
    \A N \in {1, 2} :
      /\ Cardinality(At(seg, InitType(N))) <= 1
      /\ Cardinality(At(seg, CompleteType(N))) <= 1
      /\ (At(seg, CompleteType(N)) # {} => Cardinality(At(seg, InitType(N))) = 1)
      /\ At(seg, StartType(N)) \subseteq {1}
      /\ \A i \in 1..Len(seg) :
           (seg[i].type \in StageTypes(N) \ {InitType(N), StartType(N)})
             => \E j \in 1..(i - 1) : seg[j].type = InitType(N)
      /\ \A i \in At(seg, CompleteType(N)) :
           \A j \in 1..Len(seg) : (j # i /\ seg[j].type \in StageTypes(N)) => j < i
      /\ (\E i \in 1..Len(seg) : seg[i].type \in StageTypes(N)) => stage = N

\* stage 2 was collected after a token, a progress and a model_complete event
C1_Witness ==
    /\ pc = "s2done"
    /\ At(seg, "stage2_token") # {}
    /\ At(seg, "stage2_progress") # {}
    /\ At(seg, "stage2_model_complete") # {}
    /\ At(seg, "stage2_complete") # {}

ViaQueue(e) == e.via = "queue"

\* C2: the events the client received from the queue, followed by the events
\* still queued, are the events enqueued, in the order of enqueueing (none
\* lost, none duplicated, none overtaken); nothing is left in the queue when
\* the driver moves on; the chunks of one member arrive in stream order.
C2_FifoDelivery ==
    /\ pc # "cancelled" => SelectSeq(seg, ViaQueue) \o queue = enq
    /\ pc \notin {"poll", "cancelled"} => queue = <<>>
    /\ \A i, j \in 1..Len(seg) :
         (i < j /\ seg[i].n > 0 /\ seg[j].n > 0 /\ seg[i].m = seg[j].m)
           => seg[i].n < seg[j].n

\* stage 1 was collected with two chunks of member 1 and the completion of
\* member 2 delivered between them
C2_Witness ==
    /\ pc = "s1done"
    /\ \E i, j, k \in 1..Len(seg) :
         /\ i < k /\ k < j
         /\ seg[i].m = 1 /\ seg[i].n = 1
         /\ seg[j].m = 1 /\ seg[j].n = 2
         /\ seg[k].m = 2 /\ seg[k].type = "stage1_model_complete"

\* the capacity the design gives the queue: one event per panel member
QueueCapacity == Cardinality(Members)

\* C3 as stated: the events enqueued and not delivered never exceed the
\* queue's capacity.
C3_QueueBounded == Len(queue) <= QueueCapacity

\* C4: in the events seen, classification_complete precedes routing_complete,
\* which precedes stage1_init, which precedes stage2_init, which precedes
\* stage3_start, and all of them precede done (each where present).
Chain == <<"classification_complete", "routing_complete", "stage1_init",
           "stage2_init", "stage3_start", "done">>
C5_CancelStopsChildren ==
    [][pc = "cancelled" => UNCHANGED <<task, mst, mn, queue, lbWrites, saved>>]_vars

\* C6: when stage 1 was collected with no surviving member, no stage 2 or
\* stage 3 is started, no final response and no done is emitted, no record is
\* appended, and the request ends with error as its last event.
C6_NoSurvivorsEndsInError ==
    (In(hist, "stage1_complete") # {} /\ s1res = <<>>) =>
      /\ stage = 1
      /\ pc \in {"s1done", "end"}
      /\ In(hist, "stage2_start") = {} /\ In(hist, "stage3_start") = {}
      /\ In(hist, "stage3_complete") = {} /\ In(hist, "done") = {}
      /\ saved = <<>>
      /\ pc = "end" => Last(hist) = "error"

\* the request ended after every stage-1 member failed
C6_Witness ==
    /\ pc = "end" /\ stage = 1
    /\ \A i \in Members : mst[i] = "fail"
    /\ Last(hist) = "error"

\* the members of st that returned a result
Survivors(st) == {i \in Members : Survived(st, i)}
\* r lists exactly the members of S, in panel order
InPanelOrder(r, S) ==
    /\ {r[i] : i \in 1..Len(r)} = S
    /\ \A i, j \in 1..Len(r) : i < j => r[i] < r[j]

\* C7: when the task of stage 1 or stage 2 is done, every member has run to
\* the end of its stream, whichever members failed, and the stage's result
\* list is exactly the members that returned a result, in panel order.
C7_SurvivorsInPanelOrder ==
    /\ (stage = 1 /\ task = "done") =>
         AllTerminal(mst) /\ InPanelOrder(s1res, Survivors(mst))
    /\ (stage = 2 /\ task = "done") =>
         AllTerminal(mst) /\ InPanelOrder(s2res, Survivors(mst))

\* member 1 failed in stage 1 and again in stage 2; member 2 survived both
C7_Witness ==
    /\ stage = 2 /\ task = "done"
    /\ s1res = <<2>>
    /\ mst[1] = "fail" /\ s2res = <<2>>

\* C8: a request that has emitted done has appended exactly one assistant
\* record (so the append came first); no request appends more than one, and
\* done is emitted at most once.
C8_OneRecordBeforeDone ==
    /\ Len(saved) <= 1
    /\ Cardinality(In(hist, "done")) <= 1
    /\ In(hist, "done") # {} => Len(saved) = 1 /\ saved[1] = final

\* a ranked request has emitted done
C8_Witness ==
    /\ mode = "ranked" /\ stage = 2
    /\ In(hist, "done") # {}

\* C9 as stated: a request whose append of the assistant record failed still
\* ends with done, and without error.
C9_PersistFailureContained ==
    (pc = "end" /\ final # NoResp /\ saved = <<>>) =>
      Last(hist) = "done" /\ In(hist, "error") = {}

\* C10: when the stage-3 stream ends without a complete chunk, the result is
\* the buffered content if any was received and the fallback otherwise; the
\* driver reports no error of its own, appends that result and ends with
\* done (error is seen only if the append itself raised).
C10_Stage3FailureStillPersists ==
    (stage = 3 /\ mst[0] = "fail") =>
      /\ s3res = (IF mbuf[0] THEN Resp("buffered", 0) ELSE Resp("fallback", 0))
      /\ In(hist, "error") # {} => (pc = "end" /\ saved = <<>> /\ final = s3res)
      /\ pc = "title" => saved = <<s3res>>
      /\ (pc = "end" /\ In(hist, "error") = {}) =>
           (saved = <<s3res>> /\ Last(hist) = "done")

\* the stream of stage 3 ended in error after a token; the request ended
\* with the buffered content persisted and done
C10_Witness ==
    /\ pc = "end" /\ stage = 3
    /\ At(seg, "stage3_error") # {} /\ At(seg, "stage3_token") # {}
    /\ saved = <<Resp("buffered", 0)>>
    /\ Last(hist) = "done"

Stage3Types == {"stage3_start", "stage3_token", "stage3_thinking",
                "stage3_complete", "stage3_error"}
\* the event types seen: those of the current segment and the milestones
SeenTypes == {seg[i].type : i \in 1..Len(seg)} \cup {hist[i] : i \in 1..Len(hist)}

\* C11 as stated: in chat mode the client receives no stage2_* and no
\* stage3_* event.
C11_NoStage2Stage3InChat ==
    mode = "chat" => SeenTypes \cap (Stage2Types \cup Stage3Types) = {}

\* C11 as amended: in chat mode no stage 2 and no stage 3 runs and the client
\* receives no stage2_* event and no stage3_* event other than one
\* stage3_complete, which the driver emits itself with the final response:
\* the first stage-1 result, or the direct answer.
C11_ChatCutOff ==
    mode = "chat" =>
      /\ stage <= 1
      /\ SeenTypes \cap (Stage2Types \cup Stage3Types) \subseteq {"stage3_complete"}
      /\ Cardinality(In(hist, "stage3_complete")) <= 1
      /\ \A i \in At(seg, "stage3_complete") : seg[i].via = "yield"
      /\ In(hist, "stage3_complete") # {} =>
           \/ stage = 0 /\ final = Resp("direct", 0)
           \/ stage = 1 /\ s1res # <<>> /\ final = Resp("member", s1res[1])

\* a chat-mode deliberation with both members surviving has ended with done
C11_Witness ==
    /\ mode = "chat" /\ pc = "end" /\ stage = 1
    /\ Len(s1res) = 2
    /\ In(hist, "stage3_complete") # {}
    /\ Last(hist) = "done"

\* C12 as stated: in ranked mode the response promoted as final, and
\* persisted, is the stage-1 response of the member whose label has the
\* highest aggregate score of stage 2.
C12_TopAggregatePromoted ==
    (mode = "ranked" /\ stage = 2 /\ top # 0 /\ final # NoResp) =>
      /\ final = Resp("member", l2m[top])
      /\ \A k \in 1..Len(saved) : saved[k] = Resp("member", l2m[top])

\* C13 as stated: a message classified deliberation or followup never takes
\* the direct branch; the direct branch is taken only by factual, chat or
\* forced-direct messages, and shows no routing and no stage-1/stage-2 event.
C13_BranchByClass ==
    /\ msgType \in {"deliberation", "followup"} =>
         (pc # "direct" /\ In(hist, "direct_start") = {})
    /\ In(hist, "direct_start") # {} =>
         /\ msgType \in {"factual", "chat", "direct"}
         /\ SeenTypes \cap (Stage1Types \cup Stage2Types
                             \cup {"routing_start", "routing_complete"}) = {}

\* the milestones of a forced-direct request, in order
DirectRun == <<"classification_complete", "direct_start", "stage3_complete", "done">>
IsPrefix(a, b) == Len(a) <= Len(b) /\ a = SubSeq(b, 1, Len(a))

LabelsBuilt == (stage = 2 /\ task \in {"running", "done"}) \/ stage = 3

\* C20 as stated: the labels of stage 2 are A..chr(64+|Panel|) and
\* label_to_member is a bijection between them and the stage-1 outputs.
C20_LabelsSpanPanel ==
    LabelsBuilt =>
      /\ DOMAIN l2m = {64 + k : k \in 1..Cardinality(Members)}
      /\ \A c, d \in DOMAIN l2m : c # d => l2m[c] # l2m[d]
      /\ {l2m[c] : c \in DOMAIN l2m} = {s1res[k] : k \in 1..Len(s1res)}

\* C20 as amended: the labels of stage 2 are A..chr(64+n), n the number of
\* stage-1 outputs (the surviving members), assigned positionally, and
\* label_to_member is a bijection between them and the stage-1 outputs.
C20_LabelBijection ==
    LabelsBuilt =>
      /\ DOMAIN l2m = {64 + k : k \in 1..Len(s1res)}
      /\ \A k \in 1..Len(s1res) : l2m[64 + k] = s1res[k]
      /\ \A c, d \in DOMAIN l2m : c # d => l2m[c] # l2m[d]
      /\ {l2m[c] : c \in DOMAIN l2m} = {s1res[k] : k \in 1..Len(s1res)}

\* stage 2 has run on two stage-1 outputs, labelled A and B
C20_Witness ==
    /\ stage = 2 /\ task = "done"
    /\ s1res = <<1, 2>>
    /\ DOMAIN l2m = {65, 66}

\* the entries of a reply whose advisor id is in the council, in reply order
ValidEntries(c, entries) ==
    LET known(e) == e.advisor_id \in SeqRange(c.advisors) IN SelectSeq(entries, known)

\* C15: on a valid council, whatever the routing call comes to, the panel
\* returned has at least min and at most max members.
C15_PanelSizeInBounds ==
    router.pc = "returned" =>
      /\ router.council.min <= Len(router.panel)
      /\ Len(router.panel) <= router.council.max

\* a reply with more valid entries than max was trimmed
C15_Witness ==
    /\ router.pc = "returned"
    /\ Len(ValidEntries(router.council, router.reply.entries)) > router.council.max
    /\ Len(router.panel) = router.council.max

\* C16 as stated: no advisor id occurs more than once in the panel returned.
C16_AdvisorIdsUnique ==
    router.pc = "returned" =>
      \A a, b \in 1..Len(router.panel) :
          a # b => router.panel[a].advisor_id # router.panel[b].advisor_id

\* C17: every backend id of the returned panel is available.  When the
\* reply's panel is used, the panel lists the entries whose advisor id is in
\* the council, in reply order and cut at max (the others are dropped); the
\* j-th of them keeps its backend id if it is available and is given
\* available[(j-1) mod |available|] otherwise, j-1 being the number of entries
\* kept before it.
C17_BackendsAvailable ==
    router.pc = "returned" =>
      LET c == router.council
          kept == ValidEntries(c, router.reply.entries)
      IN  /\ \A j \in 1..Len(router.panel) :
                router.panel[j].model \in SeqRange(c.models)
          /\ ~UsesFallback(c, router.reply) =>
                /\ Len(router.panel) = Min(c.max, Len(kept))
                /\ \A j \in 1..Len(router.panel) :
                      /\ router.panel[j].advisor_id = kept[j].advisor_id
                      /\ router.panel[j].model =
                            IF kept[j].model \in SeqRange(c.models) THEN kept[j].model
                            ELSE c.models[((j - 1) % Len(c.models)) + 1]

\* a reply whose first entry names an unknown advisor and whose second entry
\* names an unavailable backend was used: the panel has the second entry
\* alone, with the first available backend
C17_Witness ==
    /\ router.pc = "returned"
    /\ Len(router.reply.entries) = 2
    /\ router.reply.entries[1].advisor_id = 0
    /\ router.reply.entries[2].advisor_id # 0 /\ router.reply.entries[2].model = 0
    /\ Len(router.panel) = 1
    /\ router.panel[1].reasoning = "routed"
    /\ router.panel[1].model = router.council.models[1]

\* C18: when the routing call raises, or its reply is missing, empty,
\* unparseable, without a panel, or leaves fewer than min valid entries, the
\* panel returned is the fallback: the first default advisors in council
\* order, the i-th (0-based) with available[i mod |available|] and the
\* reasoning "fallback selection"; all invocations on a council return the
\* same fallback.
C18_FallbackDeterministic ==
    /\ Cardinality(router.fallbacks) <= 1
    /\ (router.pc = "returned" /\ UsesFallback(router.council, router.reply)) =>
         LET c == router.council
         IN  /\ Len(router.panel) = c.default
             /\ router.panel \in router.fallbacks
             /\ \A i \in 0..(c.default - 1) :
                   /\ router.panel[i + 1].advisor_id = c.advisors[i + 1]
                   /\ router.panel[i + 1].model = c.models[(i % Len(c.models)) + 1]
                   /\ router.panel[i + 1].reasoning = "fallback selection"

\* an invocation fell back, on a reply with too few valid entries, after an
\* earlier one had; three advisors share two backends round-robin
C18_Witness ==
    /\ router.pc = "returned" /\ router.repeat
    /\ router.reply.kind = "panel"
    /\ UsesFallback(router.council, router.reply)
    /\ Len(router.council.models) = 2
    /\ Len(router.panel) = 3
    /\ router.panel[3].model = router.council.models[1]

\* the reply gives no usable class: the call raised, there is no response
\* or no content, no attempt to parse the content gave a JSON value, or the
\* value parsed is not an object with a "type" of a known class
NoUsableType(reply) ==
    \/ reply.kind \in {"raise", "none", "empty"}
    \/ LET t == reply.text
           v == IF t.whole # Bad THEN t.whole
                ELSE IF t.fenced # Bad THEN t.fenced ELSE t.braces
       IN  v.shape # "object" \/ v.type \notin MsgTypes

\* C19: classify_message always returns, never raises, and returns one of
\* the four classes; a call that raised, an empty reply, content that does
\* not parse, and a parsed value without a known type all yield
\* deliberation, and a known type is returned as it is.
C19_ClassifierNeverFails ==
    classifier.pc = "returned" =>
      /\ ~classifier.result.raised
      /\ classifier.result.type \in MsgTypes
      /\ classifier.reply.kind # "unasked" =>
           IF NoUsableType(classifier.reply)
           THEN classifier.result.type = "deliberation"
           ELSE classifier.result.type = ExtractJsonFromResponse(classifier.reply.text).type

\* the content parsed to a list holding "type", which indexing by "type"
\* rejects: the exception was turned into deliberation
C19_Witness ==
    /\ classifier.pc = "returned"
    /\ classifier.reply.kind = "content"
    /\ ExtractJsonFromResponse(classifier.reply.text).shape = "listWithType"
    /\ classifier.result = Returned("deliberation")

\* the closed set of event types of the event-stream interface
ClosedEventTypes ==
    {"execution_mode", "classification_start", "classification_complete",
     "direct_start", "stage3_complete", "usage_update", "done", "error",
     "routing_start", "routing_complete", "panel_confirmed",
     "search_start", "search_complete",
     "stage1_init", "stage1_progress", "stage1_token", "stage1_thinking",
     "stage1_model_complete", "stage1_model_error", "stage1_complete",
     "round_start", "round_complete",
     "stage2_init", "stage2_progress", "stage2_token", "stage2_thinking",
     "stage2_model_complete", "stage2_complete", "analysis",
     "stage3_start", "stage3_token", "stage3_thinking", "stage3_error"}

C28_ModelErrorDelivered ==
    (pc = "poll" /\ stage = 1 /\ task = "done" /\ queue = <<>>) =>
      \A i \in s1err :
         \E k \in At(seg, "stage1_model_error") : seg[k].m = i

\* C29 as stated: done does not wait for the title-generation call: while
\* that call is in flight the client already has done.
C29_DoneBeforeTitle ==
    pc = "title" => In(hist, "done") # {}

\* the 1-indexed position of label c in ranking r, 0 if r does not rank c
RankOf(r, c) == IF \E a \in DOMAIN r : r[a] = c
                THEN CHOOSE a \in DOMAIN r : r[a] = c ELSE 0
\* the Borda points ranking r gives label c: n - i + 1 at position i of n
BordaPoints(r, c) == IF RankOf(r, c) = 0 THEN 0 ELSE Len(r) - RankOf(r, c) + 1
RECURSIVE BordaSum(_, _, _)
BordaSum(rks, c, upto) ==
    IF upto = 0 THEN 0 ELSE BordaSum(rks, c, upto - 1) + BordaPoints(rks[upto], c)
IsBordaSum(sc, rks) == \A c \in ScoreLabels : sc[c] = BordaSum(rks, c, Len(rks))

\* C21 as stated: the score of a label is the sum over the evaluators of
\* n - i + 1 for its position i in a ranking of length n and of 0 where it
\* is not ranked; and when an evaluator omits a label, the score of every
\* other label is what it was.
C21_OmissionLeavesOthers ==
    /\ IsBordaSum(scoring.scores, scoring.rks)
    /\ scoring.change.kind = "omit" =>
         \A d \in ScoreLabels \ {scoring.change.label} :
            scoring.scores[d] = scoring.prev[d]

\* C21 as amended: the score of a label is that Borda sum; when an evaluator
\* omits a label, the omitted label loses the points that evaluator gave
\* it, every label the evaluator ranked before the omitted one loses one
\* point (its ranking is one shorter), and every other label keeps its score.
C21_BordaSum ==
    /\ IsBordaSum(scoring.scores, scoring.rks)
    /\ scoring.change.kind = "omit" =>
         LET r == scoring.change.ranking
             c == scoring.change.label
         IN  \A d \in ScoreLabels :
               scoring.scores[d] =
                 scoring.prev[d]
                   - (IF d = c THEN BordaPoints(r, c)
                      ELSE IF RankOf(r, d) # 0 /\ RankOf(r, d) < RankOf(r, c) THEN 1
                      ELSE 0)

\* the second of two evaluators who ranked A, B, C in this order left out C
C21_Witness ==
    /\ scoring.rks = << <<65, 66, 67>>, <<65, 66>> >>
    /\ scoring.change.kind = "omit" /\ scoring.change.label = 67
    /\ scoring.scores[65] = 5 /\ scoring.prev[65] = 6

\* the labels that have a score, and those of them with the highest score
Scored(rks) == {c \in ScoreLabels : \E e \in 1..Len(rks) : RankOf(rks[e], c) # 0}
Leaders(rks) ==
    {c \in Scored(rks) :
        \A d \in Scored(rks) : BordaSum(rks, d, Len(rks)) <= BordaSum(rks, c, Len(rks))}

\* C22 as stated: the winner is the label of the highest score, and of the
\* labels that share the highest score the one with the earliest letter.
C22_EarliestLetterWins ==
    Scored(scoring.rks) # {} =>
      /\ scoring.top \in Leaders(scoring.rks)
      /\ \A c \in Leaders(scoring.rks) : scoring.top <= c

\* C30 as stated: after one more evaluator has ranked label X first, the
\* score of X is not lower and the score of no other label is higher.
C30_AddRaisesOnlyFirst ==
    (scoring.change.kind = "add" /\ scoring.change.ranking # <<>>) =>
      LET X == scoring.change.ranking[1]
      IN  /\ scoring.scores[X] >= scoring.prev[X]
          /\ \A d \in ScoreLabels \ {X} : scoring.scores[d] <= scoring.prev[d]

\* C30 as amended: after one more evaluator has ranked label X first in a
\* ranking of n labels, the score of X is higher by n, the score of every
\* other label is not lower and is higher by at most n - 1, and a label that
\* evaluator did not rank keeps its score.
C30_BordaMonotone ==
    (scoring.change.kind = "add" /\ scoring.change.ranking # <<>>) =>
      LET r == scoring.change.ranking
          X == r[1]
      IN  /\ scoring.scores[X] = scoring.prev[X] + Len(r)
          /\ \A d \in ScoreLabels \ {X} :
                /\ scoring.scores[d] >= scoring.prev[d]
                /\ scoring.scores[d] <= scoring.prev[d] + Len(r) - 1
                /\ RankOf(r, d) = 0 => scoring.scores[d] = scoring.prev[d]

\* a third evaluator ranked C first, before A, after two who ranked A first
C30_Witness ==
    /\ Len(scoring.rks) = 3
    /\ scoring.change.kind = "add" /\ scoring.change.ranking = <<67, 65>>
    /\ scoring.rks[1] = <<65, 66, 67>> /\ scoring.rks[2] = <<65, 67, 66>>
    /\ scoring.scores[67] = scoring.prev[67] + 2
    /\ scoring.scores[65] = scoring.prev[65] + 1

\* the position a call with the scores ms gives backend b: one more than
\* the number of backends that scored higher or scored the same and were
\* listed earlier
PlaceOf(ms, b) ==
    LET a == CHOOSE x \in 1..Len(ms) : ms[x].m = b
    IN  1 + Cardinality({x \in 1..Len(ms) : ms[x].s > ms[a].s})
          + Cardinality({x \in 1..(a - 1) : ms[x].s = ms[a].s})
\* the positions the first upto calls gave backend b, oldest first
RECURSIVE Placed(_, _, _)
Placed(log, b, upto) ==
    IF upto = 0 THEN <<>>
    ELSE IF b \in Keys(log[upto].ms)
         THEN Append(Placed(log, b, upto - 1), PlaceOf(log[upto].ms, b))
         ELSE Placed(log, b, upto - 1)
\* the rubric scores the first upto calls gave backend b, oldest first
RECURSIVE Rated(_, _, _)
Rated(log, b, upto) ==
    IF upto = 0 THEN <<>>
    ELSE IF b \in log[upto].rub
         THEN Append(Rated(log, b, upto - 1), RubricScore)
         ELSE Rated(log, b, upto - 1)
\* everything ever put in the position window and in a criterion window of b
AllPositions(b) ==
    StoredWindow(leaderboard.stored) \o Placed(leaderboard.log, b, Len(leaderboard.log))
AllRatings(b) ==
    StoredWindow(leaderboard.stored) \o Rated(leaderboard.log, b, Len(leaderboard.log))
\* w is the last entries of full, the last n of them when full is longer
IsTailOf(w, full, n) ==
    /\ Len(w) = Min(n, Len(full))
    /\ \A a \in 1..Len(w) : w[a] = full[Len(full) - Len(w) + a]

\* C23: after any sequence of record_deliberation_result calls the position
\* window and every criterion window of every entry hold at most 50
\* entries, and they are the latest of all the entries ever recorded.
C23_WindowsAtMost50 ==
    leaderboard.pc = "on" =>
      \A b \in DOMAIN leaderboard.file :
        LET entry == leaderboard.file[b]
        IN  /\ Len(entry.positions) <= 50
            /\ IsTailOf(entry.positions, AllPositions(b), 50)
            /\ \A c \in DOMAIN entry.rubric_scores :
                  /\ Len(entry.rubric_scores[c]) <= 50
                  /\ IsTailOf(entry.rubric_scores[c], AllRatings(b), 50)

\* three calls rated and placed a backend whose windows were full: each
\* window has dropped its three oldest entries
C23_Witness ==
    /\ leaderboard.pc = "on" /\ leaderboard.stored = WindowCap
    /\ \E b \in DOMAIN leaderboard.file :
         /\ Len(AllPositions(b)) = WindowCap + 3
         /\ Len(AllRatings(b)) = WindowCap + 3
         /\ Len(leaderboard.file[b].positions) = WindowCap
         /\ Len(leaderboard.file[b].rubric_scores["clarity"]) = WindowCap
         /\ leaderboard.file[b].positions[1] = StoredWindow(WindowCap)[4]

\* C24: after k calls in which backend b takes part, made in any order by
\* requests that run at the same time, the participations of b are k more
\* than they were and the window of b ends with the k new positions (the
\* latest 50 of them), none lost.
C24_NoLostUpdate ==
    leaderboard.pc = "on" =>
      \A b \in Backends :
        LET new == Placed(leaderboard.log, b, Len(leaderboard.log))
            k == Len(new)
        IN  /\ k > 0 => b \in DOMAIN leaderboard.file
            /\ b \in DOMAIN leaderboard.file =>
                  /\ leaderboard.file[b].participations = leaderboard.stored + k
                  /\ Len(leaderboard.file[b].positions) >= Min(k, WindowCap)
                  /\ \A a \in 1..Min(k, WindowCap) :
                        leaderboard.file[b].positions
                            [Len(leaderboard.file[b].positions) - a + 1]
                          = new[k - a + 1]

\* both running requests have recorded, one of them twice, and backend 1
\* took part in the three calls, second of two in the last
C24_Witness ==
    /\ leaderboard.pc = "on" /\ Len(leaderboard.log) = 3
    /\ leaderboard.log[1].r = 1 /\ leaderboard.log[2].r = 2 /\ leaderboard.log[3].r = 1
    /\ \A a \in 1..3 : 1 \in Keys(leaderboard.log[a].ms)
    /\ PlaceOf(leaderboard.log[3].ms, 1) = 2
    /\ leaderboard.file[1].participations = leaderboard.stored + 3

Terminal(chunk) == chunk \in {"complete", "error"}

\* C25: a call of the streaming operation yields one terminal chunk
\* (complete or error) and no more, and it is the last chunk: none is
\* yielded before the call has ended, and when the call has ended the last
\* chunk is terminal and no chunk before it is.
C25_OneTerminalLast ==
    stream.pc # "off" =>
      /\ \A a \in 1..Len(stream.out) :
            Terminal(stream.out[a]) => (a = Len(stream.out) /\ stream.pc = "end")
      /\ stream.pc = "end" =>
            (stream.out # <<>> /\ Terminal(stream.out[Len(stream.out)]))

\* the transport failed after a reasoning and a content chunk
C25_Witness ==
    /\ stream.pc = "end" /\ stream.provider = "openrouter"
    /\ stream.read = 2 /\ stream.out = <<"thinking", "token", "error">>

\* the sum of field f of the summaries m[st] of the stages st in S
RECURSIVE SumOfSummaries(_, _, _)
SumOfSummaries(m, S, f) ==
    IF S = {} THEN 0
    ELSE LET st == CHOOSE x \in S : TRUE
         IN  m[st][f] + SumOfSummaries(m, S \ {st}, f)
SummaryFields == {"prompt_tokens", "completion_tokens", "total_tokens", "cost", "calls"}

\* C26: the running total of a usage_update is, field by field, the sum of
\* the latest summaries the client has of all the stages, the total of done
\* is the sum of the summaries done carries, and a record call with an
\* empty usage leaves the total and every summary as they were.
C26_TotalIsSumOfStages ==
    usage.pc # "off" =>
      /\ usage.sent.type = "usage_update" =>
            \A f \in SummaryFields :
               usage.sent.running_total[f] = SumOfSummaries(usage.seen, UsageStages, f)
      /\ usage.sent.type = "done" =>
            \A f \in SummaryFields :
               usage.sent.usage.total[f]
                 = SumOfSummaries(usage.sent.usage.by_stage,
                                  DOMAIN usage.sent.usage.by_stage, f)
      /\ usage.last = "empty" => GetBreakdown(usage.calls) = usage.before

\* done after records of two stages and of the title, one without cost,
\* and after a call with an empty usage
C26_Witness ==
    /\ usage.pc = "done" /\ usage.sent.type = "done"
    /\ usage.n = 3 /\ Len(usage.calls) = 3
    /\ DOMAIN usage.sent.usage.by_stage = {"stage1", "stage2", "title"}
    /\ usage.sent.usage.total["calls"] = 3
    /\ usage.sent.usage.total["cost"] = 2
    /\ usage.sent.usage.total["total_tokens"] = 11

\* the evaluators (their places in the list of rankings) that placed label c
Placers(c) == {k \in 1..Len(scoring.rks) : RankOf(scoring.rks[k].parsed, c) # 0}
PlaceBy(k, c) == RankOf(scoring.rks[k].parsed, c)
\* the largest difference between the positions two evaluators gave label c
SpreadOf(c) ==
    CHOOSE x \in 0..5 :
      /\ \E k \in Placers(c) : \E j \in Placers(c) : PlaceBy(k, c) - PlaceBy(j, c) = x
      /\ \A k \in Placers(c) : \A j \in Placers(c) : PlaceBy(k, c) - PlaceBy(j, c) <= x
SwapsOf(c) == {x \in scoring.conflicts : x.type = "ranking_swap" /\ x.response = c}

\* C31: for each label that at least two evaluators placed, no ranking
\* conflict is recorded when the spread of its positions is at most 1, and
\* exactly one otherwise, of severity low for a spread of 2, medium for 3
\* and high for 4 or more.
C31_SwapSeverityBySpread ==
    scoring.pc = "analysed" =>
      \A c \in AnalysisLabels :
        Cardinality(Placers(c)) >= 2 =>
          IF SpreadOf(c) <= 1 THEN SwapsOf(c) = {}
          ELSE /\ Cardinality(SwapsOf(c)) = 1
               /\ \A x \in SwapsOf(c) :
                     x.severity = (IF SpreadOf(c) >= 4 THEN "high"
                                   ELSE IF SpreadOf(c) = 3 THEN "medium" ELSE "low")

\* evaluators k and j each place the other's response at the threshold
\* max(3, n - 1) or later, n the larger of their numbers of placed labels
Opposed(k, j) ==
    LET a == scoring.rks[k]
        b == scoring.rks[j]
        n == IF Len(a.parsed) >= Len(b.parsed) THEN Len(a.parsed) ELSE Len(b.parsed)
        threshold == IF n - 1 >= 3 THEN n - 1 ELSE 3
    IN  /\ n >= 3
        /\ RankOf(a.parsed, PanelLabel(b.m)) >= threshold
        /\ RankOf(b.parsed, PanelLabel(a.m)) >= threshold

\* C32: for every two evaluators, a mutual_opposition conflict of severity
\* high that names their two backends is recorded if and only if n >= 3
\* and each places the other's response at the threshold or later.
C32_MutualOpposition ==
    scoring.pc = "analysed" =>
      \A k \in 1..Len(scoring.rks) : \A j \in 1..Len(scoring.rks) :
        k < j =>
          (Opposed(k, j) <=>
             \E x \in scoring.conflicts :
                /\ x.type = "mutual_opposition" /\ x.severity = "high"
                /\ x.models = {scoring.rks[k].model, scoring.rks[j].model})

\* the evaluators whose position for label c is 1.5 or more below the
\* average (sign = -1) or above it (sign = 1)
Apart(c, sign) ==
    LET n == Cardinality(Placers(c))
        total == SumOver([k \in Placers(c) |-> PlaceBy(k, c)], Placers(c))
    IN  {k \in Placers(c) : sign * 2 * (n * PlaceBy(k, c) - total) >= 3 * n}
Direction(sign) == IF sign = 1 THEN "lower" ELSE "higher"
Needed == IF (3 * Len(scoring.rks)) \div 10 >= 1
          THEN (3 * Len(scoring.rks)) \div 10 ELSE 1
EntryFor(c, sign) ==
    \E x \in scoring.minority : x.response = c /\ x.direction = Direction(sign)

C38_DissentersPlacedLabel ==
    scoring.pc = "analysed" =>
      \A x \in scoring.minority : \A d \in x.details :
        \E k \in 1..Len(scoring.rks) :
           /\ scoring.rks[k].model = d.model
           /\ PlaceBy(k, x.response) = d.position

\* C39: there are as many position maps as evaluators with a ranking that
\* is not empty, and the map of the backend of each of them is its ranking.
C39_OneMapPerEvaluator ==
    scoring.pc = "analysed" =>
      LET ranked == {k \in 1..Len(scoring.rks) : scoring.rks[k].parsed # <<>>}
      IN  /\ Cardinality(DOMAIN scoring.maps) = Cardinality(ranked)
          /\ \A k \in ranked : scoring.maps[scoring.rks[k].model] = scoring.rks[k].parsed

\* C34: a call with the scores S and the winner w changes, for each backend
\* of S, the participations by 1, the total score by its score, the window
\* by its position in S sorted by score, highest first (the window cut to
\* its latest 50), avg_position to the mean of that window, and the wins by
\* 1 if and only if the backend is w; the entries of the other backends and
\* of the other councils are as they were.
C34_RecordFrame ==
    leaderboard.pc = "returned" =>
      LET args == leaderboard.args
          c == args.council_id
          old == IF c \in DOMAIN leaderboard.before THEN leaderboard.before[c] ELSE <<>>
          new == leaderboard.data[c]
          was(b) == IF b \in DOMAIN old THEN old[b]
                    ELSE [wins |-> 0, participations |-> 0, total_score |-> 0,
                          positions |-> <<>>]
          score(b) == args.ms[CHOOSE a \in 1..Len(args.ms) : args.ms[a].m = b].s
          sum(w) == SumOver([a \in 1..Len(w) |-> w[a]], 1..Len(w))
      IN  /\ DOMAIN leaderboard.data = DOMAIN leaderboard.before \cup {c}
          /\ \A d \in DOMAIN leaderboard.before \ {c} :
                leaderboard.data[d] = leaderboard.before[d]
          /\ DOMAIN new = DOMAIN old \cup Keys(args.ms)
          /\ \A b \in DOMAIN old \ Keys(args.ms) : new[b] = old[b]
          /\ \A b \in Keys(args.ms) :
                /\ new[b].participations = was(b).participations + 1
                /\ new[b].total_score = was(b).total_score + score(b)
                /\ IsTailOf(new[b].positions,
                            Append(was(b).positions, PlaceOf(args.ms, b)), 50)
                /\ new[b].avg_position = <<sum(new[b].positions), Len(new[b].positions)>>
                /\ new[b].wins = was(b).wins + (IF b = args.winner THEN 1 ELSE 0)

\* a call for a council whose windows were full, the scores listed lowest
\* first and the winner the backend placed first, while the other council
\* has entries too
C34_Witness ==
    /\ leaderboard.pc = "returned"
    /\ leaderboard.args.council_id = "personal"
    /\ leaderboard.args.ms = <<[m |-> 1, s |-> 1], [m |-> 2, s |-> 2]>>
    /\ leaderboard.args.winner = 2
    /\ DOMAIN leaderboard.before = {"personal", "protocol"}
    /\ Len(leaderboard.before["personal"][1].positions) = WindowCap
    /\ leaderboard.data["personal"][1].positions[WindowCap] = 2
    /\ leaderboard.data["personal"][2].wins = leaderboard.before["personal"][2].wins + 1
\* C35: the retry wrapper makes another attempt only after a transport
\* error: an attempt that failed with a 4xx status is the call's only attempt,
\* and a call has at most max_retries + 1 attempts.
C35_RetryOnlyTransport ==
    stream.pc \in {"loop", "returned"} =>
        /\ \A k \in 1..(Len(stream.outcomes) - 1) : stream.outcomes[k] = "transport"
        /\ (\E k \in 1..Len(stream.outcomes) : stream.outcomes[k] = "http4xx")
               => Len(stream.outcomes) = 1
        /\ Len(stream.outcomes) <= stream.max_retries + 1

\* the places of the terminal events among the milestones received
TerminalEvents == In(hist, "done") \cup In(hist, "error")

\* C36: a request that is not cancelled ends its event stream with exactly
\* one terminal event, done or error and never both, and the client receives
\* no event after it: no terminal event is received before the stream ends,
\* and at the end the one terminal event is the last event received.
C36_OneTerminalEvent ==
    /\ Cardinality(TerminalEvents) <= 1
    /\ TerminalEvents # {} => pc = "end"
    /\ pc = "end" =>
         /\ Cardinality(TerminalEvents) = 1
         /\ Last(hist) \in {"done", "error"}
         /\ seg # <<>>
         /\ Last(seg).type = Last(hist)
         /\ Cardinality(At(seg, "done") \cup At(seg, "error")) = 1

\* a full deliberation whose stage 3 was delivered and whose record could not
\* be stored has ended with error
C36_Witness ==
    /\ pc = "end" /\ mode = "full" /\ stage = 3
    /\ In(hist, "stage3_complete") # {}
    /\ saved = <<>>
    /\ hist # <<>> /\ Last(hist) = "error"
    /\ In(hist, "done") = {}

\* C37 as stated: in full mode the client receives exactly one stage3_complete
\* event per request: never more than one, and one when the request has
\* ended with done.
C37_OneStage3Complete ==
    mode = "full" =>
        /\ Cardinality(In(hist, "stage3_complete")) <= 1
        /\ (pc = "end" /\ In(hist, "done") # {})
               => Cardinality(In(hist, "stage3_complete")) = 1

\* C40: when every backend call terminates, every request that is not
\* cancelled eventually ends with done or error.
C40_EventuallyTerminal ==
    <>(pc = "cancelled" \/ (pc = "end" /\ TerminalEvents # {}))

\* a full deliberation has ended with done after its three poll loops: the
\* stage-3 task is done and nothing is left in the queue
C40_Witness ==
    /\ pc = "end" /\ mode = "full" /\ ~forceDirect
    /\ stage = 3 /\ task = "done" /\ queue = <<>>
    /\ Cardinality(In(hist, "stage3_start")) = 1
    /\ In(hist, "done") # {}

====
